---------------------------- MODULE Spec2Model ----------------------------
(***************************************************************************)
(* Face-recognition service (services/face-recognition/src).               *)
(*                                                                         *)
(* Seven subsystems are modelled, each with its own specifications:        *)
(*   SpecCapture   - ResilientRTSPStream (rtsp_stream.py): the caller's    *)
(*                   start()/stop() and the capture thread.                *)
(*   SpecReader    - the started stream with a caller of read_frame().     *)
(*   SpecScheduler - processing_loop, process_frame and process_face of    *)
(*                   main.py with their calls of RedisClient.              *)
(*   SpecPublisher - RedisClient (redis_client.py): the buffer log and     *)
(*                   the /sync-buffer drain.                               *)
(*   SpecMatcher   - FaceRecognizer.recognize_face (recognizer.py) over    *)
(*                   the registered embeddings.                            *)
(*   SpecVerifier  - MultiFrameVerifier (voting.py): add_verification and  *)
(*                   verify_identity.                                      *)
(*   SpecHistory   - its per-track deques filled beyond their capacity.    *)
(*   SpecService   - lifespan of main.py: startup, the processing task     *)
(*                   between its awaits, and shutdown_event.               *)
(*   SpecReadiness - the service with GET /ready, the camera and Redis     *)
(*                   coming and going.                                     *)
(*   SpecDetector  - the size filter of detect_faces (detector.py).        *)
(* SpecCaptureLive is SpecCapture with the capture thread's fairness.      *)
(* Spec is their interleaving.                                             *)
(***************************************************************************)
EXTENDS Integers, Sequences, FiniteSets

(***************************************************************************)
(* Program constants (config.py, rtsp_stream.py, redis_client.py, voting.py)*)
(***************************************************************************)
initial_retry_delay == 30

max_retry_delay == 300

JoinTimeout == 5

MAX_BUFFER_SIZE == 10000

PRIMARY_MAXLEN == 100000

(***************************************************************************)
(* Bounds of the model.                                                    *)
(***************************************************************************)
MaxFrames == 2

MaxErrors == 2

MaxRetries == 4

MaxStarts == 2

MaxStops == 2

NumPixels == 2

MaxEvents == 2

MaxTicks == 4

MaxFaces == 2

MaxLog == 3

MaxEmbeddings == 5

MaxObservations == 4

MaxBoxes == 2

\* The period settings.PROCESS_EVERY_N_FRAMES (config.py 41, default 30), kept small.
PROCESS_EVERY_N_FRAMES == 2

None == 0

\* person_id=None of a RecognitionResult
NoPerson == "None"

\* settings.SIMILARITY_THRESHOLD (config.py 31: 0.35), in hundredths
SIMILARITY_THRESHOLD == 35

\* settings.VOTING_THRESHOLD (config.py 32: 0.60), in hundredths
VOTING_THRESHOLD == 60

\* settings.MIN_FACE_SIZE (config.py 33), in pixels
MIN_FACE_SIZE == 80

\* settings.VERIFICATION_FRAMES (config.py 37)
VERIFICATION_FRAMES == 3

\* settings.VERIFICATION_INTERVAL (config.py 38: 1.0), in seconds
VERIFICATION_INTERVAL == 1

\* The "+ 5" of max_age in verify_identity (voting.py 147), in seconds
WindowSlack == 5

\* The tracks, the persons a frame can be matched to, the timestamps a
\* verification can carry and the times of a verify_identity call, in
\* seconds: at 8 the timestamp 0 is older than the window, 1 is at its far
\* edge and 9 is later than now; at 9 the timestamp 9 is at its near edge.
TrackIds == {"T1"}

\* "history_ttl: int = 30" (voting.py 48)
history_ttl == 30

\* The clock advances in steps of ClockStep seconds up to MaxClock.
ClockStep == 15

MaxClock == 45

ObservedPersons == {"E1", "E2", "E3"}

Timestamps == {0, 1, 9}

Nows == {8, 9}

\* The tracks and timestamps of the histories that are filled to capacity.
HistoryTracks == {"T1", "T2"}

TrackRank(t) == IF t = "T1" THEN 1 ELSE 2

HistoryTimestamps == {0, 1}

\* The persons of the enrollment, and the similarities a registered embedding
\* can have with the query: below, at and above the threshold.
PersonIds == {"E1", "E2"}

Similarities == {SIMILARITY_THRESHOLD - 5, SIMILARITY_THRESHOLD, SIMILARITY_THRESHOLD + 5}

Min(a, b) == IF a <= b THEN a ELSE b

VARIABLES
    \* ---- ResilientRTSPStream fields (rtsp_stream.py __init__) ----
    running,          \* self.running
    connected,        \* self.connected
    cap,              \* self.cap: "none" (None), "open" (a VideoCapture holding
                      \* the stream) or "unopened" (one that could not open it)
    frame,            \* self.frame: None or the pixel content of the slot
    frame_count,      \* self.frame_count
    error_count,      \* self.error_count
    retry_count,      \* self.retry_count
    retry_delay,      \* self.retry_delay
    capture_thread,   \* self.capture_thread: None or the thread object (1)
    \* ---- the capture thread (_capture_loop) ----
    thread_pc,        \* where the thread is
    sleep_left,       \* seconds left of its time.sleep(self.retry_delay)
    thread_event,     \* the last thing the thread did
    after_backoff,    \* the last successful connect came after two or more retries
    escalation_log,   \* levels logged by _handle_connection_failure
    \* ---- the caller of start()/stop()/read_frame() ----
    stop_pc,          \* "idle", or "join" inside stop()'s join(timeout=5.0)
    join_left,        \* seconds left of that join
    stop_returned,    \* stop() has returned and start() was not called since
    late_frame,       \* a frame was published after stop() returned
    stop_in_sleep,    \* the thread was sleeping in backoff when stop() was called
    since_stop,       \* seconds that thread has slept on since, up to initial_retry_delay+1
    n_start,          \* calls of start()
    n_stop,           \* calls of stop()
    spawned,          \* threads created by start()
    rd_seq,           \* 0 before the first read_frame(), then 1, 2, 1, 2, ...
    rd_ok, rd_frame,  \* what the last read_frame() returned
    pub_since_rd,     \* a frame was published since the last read_frame()
    rd_repeat,        \* the last read_frame() came with no publish since the one before
    \* ---- environment ----
    source_up,        \* the camera answers
    \* ---- Redis (redis_client.py) ----
    primary,          \* stream:face_events, oldest first
    buffer,           \* buffer:face_events, entries [id, data], oldest first
    next_id,          \* next message id of the buffer stream
    alerts,           \* messages published on the alerts channel
    primary_ok,       \* the primary log accepts writes
    buffer_ok,        \* the buffer log answers
    \* ---- main.py processing ----
    frame_counter,    \* state.frame_counter
    enrolled,         \* state.registered_persons is not empty
    person_counts,    \* stream:person_count, the frame_number of each entry
    faces_left,       \* faces of the current frame process_frame has yet to handle
    n_events,         \* events created so far (an event's timestamp)
    call_log,         \* the publisher and detector calls of processing_loop, in order
    rejected,         \* timestamps of the events process_face handled while the
                      \* primary log rejected writes and the buffer log answered
    \* ---- a /sync-buffer call (sync_buffer_to_stream) ----
    sync_pc,          \* "idle", "copy", "delete", "returned"
    sync_msgs,        \* messages = xrange(buffer) still to be handled
    sync_snapshot,    \* the buffer log as the drain found it
    synced,           \* the local counter
    sync_result,      \* what the call returned
    sync_clean,       \* no outage of either log since the call began
    sync_fresh,        \* no snapshot entry was in the primary when the call began
    \* ---- ArcFaceRecognizer.recognize_face (recognizer.py) ----
    registered_embeddings, \* the registered embeddings handed to recognize_face
    rec_result,       \* what recognize_face returned for them, if it was called
    \* ---- MultiFrameVerifier (voting.py) ----
    verification_history, \* self.verification_history
    verify_result,    \* what the last verify_identity call returned
    verify_now,       \* datetime.now() of that call
    verify_track,     \* the tracking_id of that call
    evicted,          \* <<tracking_id, verification>> the last add dropped, or <<>>
    \* ---- the service (main.py) ----
    lifespan,         \* "init", "up", "failed", "await_task", "disconnect", "complete"
    state_running,    \* state.running
    processing_task,  \* where state.processing_task is suspended or runs, or "none"
    must_cancel,      \* cancel() was called on the task and is not delivered yet
    rtsp_stream,      \* state.rtsp_stream: "none", "started", "stopped"
    redis_client,     \* state.redis_client: "none", "unconnected", "connected", "closed"
    broadcasts,       \* timestamps of the events sent on the face-detection channel
    face_error,       \* process_face raised inside for a face of the current frame
    frame_error,      \* processing_loop caught an exception of an earlier turn
    at_shutdown,      \* state.frame_counter and the task's position when shutdown_event began
    ready_result,     \* what the last /ready call answered: "none", "ready", "not_ready"
    ready_seen,       \* <<state.running, capture connected, Redis answers>> at that call
    \* ---- FacePersonDetector.detect_faces (detector.py) ----
    face_boxes,       \* the boxes of the face model the loop has handled
    face_detections,  \* "detections": the ones it kept
    \* ---- a second /sync-buffer call, overlapping the first ----
    overlap_pc,       \* "idle", "copy", "delete", "returned"
    overlap_msgs,     \* its messages = xrange(buffer) still to be handled
    \* ---- the capture thread of before the last start() ----
    old_pc,           \* where it is in _capture_loop, or "none"
    old_wrote,        \* it wrote the frame slot after that start()
    \* ---- the wall clock of the verifier's reaper ----
    clock             \* datetime.now(), in seconds

captureVars == <<running, connected, cap, frame, frame_count, error_count,
                 retry_count, retry_delay, capture_thread, thread_pc, sleep_left,
                 thread_event, after_backoff, escalation_log>>

callerVars == <<stop_pc, join_left, stop_returned, late_frame, stop_in_sleep,
                since_stop, n_start, n_stop, spawned>>

readerVars == <<rd_seq, rd_ok, rd_frame, pub_since_rd, rd_repeat>>

redisVars == <<primary, buffer, next_id, alerts, primary_ok, buffer_ok>>

procVars == <<frame_counter, enrolled, person_counts, faces_left, n_events, rejected,
              call_log>>

matcherVars == <<registered_embeddings, rec_result>>

verifierVars == <<verification_history, verify_result, verify_now, verify_track,
                  evicted>>

serviceVars == <<lifespan, state_running, processing_task, must_cancel, rtsp_stream,
                 redis_client, broadcasts, face_error, frame_error,
                 at_shutdown, ready_result, ready_seen>>

detectorVars == <<face_boxes, face_detections>>

overlapVars == <<overlap_pc, overlap_msgs>>

previousVars == <<old_pc, old_wrote>>

reaperVars == <<clock>>

concurrencyVars == <<overlapVars, previousVars, reaperVars>>

syncVars == <<sync_pc, sync_msgs, sync_snapshot, synced, sync_result, sync_clean,
              sync_fresh>>

vars == <<captureVars, callerVars, readerVars, source_up, redisVars, procVars,
          syncVars,
         matcherVars, verifierVars, serviceVars, detectorVars, concurrencyVars>>

(***************************************************************************)
(* ResilientRTSPStream                                                     *)
(***************************************************************************)

\* __init__ (rtsp_stream.py 55-77)
InitCapture ==
    /\ running = FALSE
    /\ connected = FALSE
    /\ cap = "none"
    /\ frame = None
    /\ frame_count = 0
    /\ error_count = 0
    /\ retry_count = 0
    /\ retry_delay = initial_retry_delay
    /\ capture_thread = None
    /\ thread_pc = "none"
    /\ sleep_left = 0
    /\ thread_event = "none"
    /\ after_backoff = FALSE
    /\ escalation_log = {}
    /\ stop_pc = "idle"
    /\ join_left = 0
    /\ stop_returned = FALSE
    /\ late_frame = FALSE
    /\ stop_in_sleep = FALSE
    /\ since_stop = 0
    /\ n_start = 0
    /\ n_stop = 0
    /\ spawned = 0
    /\ rd_seq = 0
    /\ rd_ok = FALSE
    /\ rd_frame = None
    /\ pub_since_rd = FALSE
    /\ rd_repeat = FALSE
    /\ source_up = FALSE

start_never_noop == FALSE

\* start(): "if self.running: return"
start_is_noop == running

\* start() (134-144).  A caller restarts only once the previous thread has ended.
Start ==
    /\ stop_pc = "idle"
    /\ n_start < MaxStarts
    /\ running \/ thread_pc \in {"none", "done"}
    /\ n_start' = n_start + 1
    /\ IF start_is_noop
       THEN UNCHANGED <<captureVars, spawned, stop_returned, late_frame,
                        stop_in_sleep, since_stop>>
       ELSE /\ running' = TRUE
            /\ capture_thread' = 1
            /\ thread_pc' = "loop"
            /\ thread_event' = "spawn"
            /\ sleep_left' = 0
            /\ spawned' = spawned + 1
            /\ stop_returned' = FALSE
            /\ late_frame' = FALSE
            /\ stop_in_sleep' = FALSE
            /\ since_stop' = 0
            /\ UNCHANGED <<connected, cap, frame, frame_count, error_count,
                           retry_count, retry_delay, after_backoff, escalation_log>>
    /\ UNCHANGED <<stop_pc, join_left, n_stop>>
    /\ UNCHANGED <<readerVars, source_up, redisVars, procVars, syncVars>>
    /\ UNCHANGED <<matcherVars, verifierVars, serviceVars>>
    /\ UNCHANGED detectorVars
    /\ UNCHANGED concurrencyVars

release_capture_kept == "open"

\* _release_capture() (244-248)
release_capture == "none"

\* stop() up to its join (146-151): running = False, then join(timeout=5.0)
\* when there is a thread.  Without a thread it releases and returns at once.
StopBegin ==
    /\ stop_pc = "idle"
    /\ n_stop < MaxStops
    /\ n_stop' = n_stop + 1
    /\ running' = FALSE
    /\ stop_in_sleep' = (thread_pc = "sleep")
    /\ since_stop' = 0
    /\ IF capture_thread # None
       THEN /\ stop_pc' = "join"
            /\ join_left' = JoinTimeout
            /\ UNCHANGED <<cap, stop_returned, late_frame>>
       ELSE /\ cap' = release_capture
            /\ stop_returned' = TRUE
            /\ late_frame' = FALSE
            /\ UNCHANGED <<stop_pc, join_left>>
    /\ UNCHANGED <<connected, frame, frame_count, error_count, retry_count,
                   retry_delay, capture_thread, thread_pc, sleep_left, thread_event,
                   after_backoff, escalation_log, n_start, spawned>>
    /\ UNCHANGED <<readerVars, source_up, redisVars, procVars, syncVars>>
    /\ UNCHANGED <<matcherVars, verifierVars, serviceVars>>
    /\ UNCHANGED detectorVars
    /\ UNCHANGED concurrencyVars

\* stop() after the join (151-160): the join ends when the thread has ended
\* or its 5 s have passed; then _release_capture() and return.
StopEnd ==
    /\ stop_pc = "join"
    /\ thread_pc = "done" \/ join_left = 0
    /\ cap' = release_capture
    /\ stop_pc' = "idle"
    /\ join_left' = 0
    /\ stop_returned' = TRUE
    /\ late_frame' = FALSE
    /\ UNCHANGED <<running, connected, frame, frame_count, error_count, retry_count,
                   retry_delay, capture_thread, thread_pc, sleep_left, thread_event,
                   after_backoff, escalation_log, stop_in_sleep, since_stop,
                   n_start, n_stop, spawned>>
    /\ UNCHANGED <<readerVars, source_up, redisVars, procVars, syncVars>>
    /\ UNCHANGED <<matcherVars, verifierVars, serviceVars>>
    /\ UNCHANGED detectorVars
    /\ UNCHANGED concurrencyVars

read_frame_unchecked == <<TRUE, frame>>

\* read_frame() (250-260): (True, frame.copy()) or (False, None)
read_frame == IF frame # None THEN <<TRUE, frame>> ELSE <<FALSE, None>>

\* The caller reads the slot.
ReadFrame ==
    /\ stop_pc = "idle"
    /\ rd_ok' = read_frame[1]
    /\ rd_frame' = read_frame[2]
    /\ rd_seq' = IF rd_seq = 1 THEN 2 ELSE 1
    /\ pub_since_rd' = FALSE
    /\ rd_repeat' = (rd_seq # 0 /\ ~pub_since_rd)
    /\ UNCHANGED <<captureVars, callerVars, source_up, redisVars, procVars, syncVars>>
    /\ UNCHANGED <<matcherVars, verifierVars, serviceVars>>
    /\ UNCHANGED detectorVars
    /\ UNCHANGED concurrencyVars

\* _handle_connection_failure: "self.retry_delay = min(int(self.retry_delay * 1.5), max)"
next_retry_delay(d) == Min((d * 3) \div 2, max_retry_delay)

pc_after_failure_exit == "done"

\* Where the thread is after a failure was counted: in time.sleep (234),
\* from which it goes back to "while self.running" (164, "continue" of 170).
pc_after_failure == "sleep"

\* _handle_connection_failure up to its sleep (214-234)
handle_connection_failure ==
    /\ retry_count' = retry_count + 1
    /\ escalation_log' =
          IF retry_count + 1 = 3 THEN escalation_log \cup {"warning"}
          ELSE IF retry_count + 1 = 10 THEN escalation_log \cup {"critical"}
          ELSE escalation_log
    /\ thread_pc' = pc_after_failure
    /\ sleep_left' = retry_delay

\* "while self.running" and "if not self.connected" (164-173): the thread
\* ends, enters connect(), or enters self.cap.read().  With cap None the call
\* self.cap.read() raises: the except of 193-205.
LoopCheck ==
    /\ thread_pc = "loop"
    /\ IF ~running
       THEN /\ thread_pc' = "done"
            /\ thread_event' = "exit"
            /\ UNCHANGED <<connected, cap, error_count, retry_count, escalation_log,
                           sleep_left>>
       ELSE IF ~connected
       THEN /\ thread_pc' = "connect"
            /\ thread_event' = "connecting"
            /\ UNCHANGED <<connected, cap, error_count, retry_count, escalation_log,
                           sleep_left>>
       ELSE IF cap = "open"
       THEN /\ thread_pc' = "read"
            /\ thread_event' = "reading"
            /\ UNCHANGED <<connected, cap, error_count, retry_count, escalation_log,
                           sleep_left>>
       ELSE /\ error_count < MaxErrors
            /\ retry_count < MaxRetries
            /\ error_count' = error_count + 1
            /\ connected' = FALSE
            /\ cap' = release_capture
            /\ thread_event' = "read_failed"
            /\ handle_connection_failure
    /\ UNCHANGED <<running, frame, frame_count, retry_delay, capture_thread,
                   after_backoff>>
    /\ UNCHANGED <<callerVars, readerVars, source_up, redisVars, procVars, syncVars>>
    /\ UNCHANGED <<matcherVars, verifierVars, serviceVars>>
    /\ UNCHANGED detectorVars
    /\ UNCHANGED concurrencyVars

\* connect(): "self.cap = cv2.VideoCapture(self.rtsp_url)" (96-97), which
\* holds the stream when the camera answered; the thread then blocks in the
\* test read of line 100.
ConnectOpen ==
    /\ thread_pc = "connect"
    /\ cap' = IF source_up THEN "open" ELSE "unopened"
    /\ thread_pc' = "connect_read"
    /\ UNCHANGED <<running, connected, frame, frame_count, error_count, retry_count,
                   retry_delay, capture_thread, sleep_left, thread_event,
                   after_backoff, escalation_log>>
    /\ UNCHANGED <<callerVars, readerVars, source_up, redisVars, procVars, syncVars>>
    /\ UNCHANGED <<matcherVars, verifierVars, serviceVars>>
    /\ UNCHANGED detectorVars
    /\ UNCHANGED concurrencyVars

connect_retry_delay_kept == retry_delay

\* connect(): "self.retry_delay = self.initial_retry_delay  # Reset delay on success"
connect_retry_delay == initial_retry_delay

\* connect() from the test read on (100-132).  The read succeeds when the
\* camera answers and the handle is still there; with the handle released
\* meanwhile, self.cap.get raises and connect() returns False.  On True the
\* loop goes on into self.cap.read() (173) without looking at self.running.
ConnectRead ==
    /\ thread_pc = "connect_read"
    /\ IF cap = "open" /\ source_up
       THEN /\ connected' = TRUE
            /\ after_backoff' = (retry_count >= 2)
            /\ retry_count' = 0
            /\ retry_delay' = connect_retry_delay
            /\ thread_pc' = "read"
            /\ thread_event' = "connected"
            /\ UNCHANGED <<escalation_log, sleep_left>>
       ELSE /\ retry_count < MaxRetries
            /\ connected' = FALSE
            /\ thread_event' = "connect_failed"
            /\ handle_connection_failure
            /\ UNCHANGED <<retry_delay, after_backoff>>
    /\ UNCHANGED <<running, cap, frame, frame_count, error_count, capture_thread>>
    /\ UNCHANGED <<callerVars, readerVars, source_up, redisVars, procVars, syncVars>>
    /\ UNCHANGED <<matcherVars, verifierVars, serviceVars>>
    /\ UNCHANGED detectorVars
    /\ UNCHANGED concurrencyVars

\* The slot after a successful read (179-182): "self.frame = frame"
published_frame(px) == px

next_frame_count_same == frame_count

\* The counter after a successful read (181): "self.frame_count += 1"
next_frame_count == frame_count + 1

\* self.cap.read() returns (173-205).  It succeeds when the camera answers; a
\* handle released by stop() during the read makes either outcome possible.
\* Success publishes into the slot and clears error_count; failure is the
\* except branch: error_count += 1, connected = False, release, backoff.
ReadEnd ==
    /\ thread_pc = "read"
    /\ \E ok \in BOOLEAN, px \in 1..NumPixels :
         /\ ok => source_up
         /\ (cap = "open" /\ source_up) => ok
         /\ IF ok
            THEN /\ frame_count < MaxFrames
                 /\ frame' = published_frame(px)
                 /\ frame_count' = next_frame_count
                 /\ error_count' = 0
                 /\ thread_pc' = "loop"
                 /\ thread_event' = "published"
                 /\ late_frame' = stop_returned
                 /\ pub_since_rd' = TRUE
                 /\ UNCHANGED <<connected, cap, retry_count, escalation_log, sleep_left>>
            ELSE /\ error_count < MaxErrors
                 /\ retry_count < MaxRetries
                 /\ error_count' = error_count + 1
                 /\ connected' = FALSE
                 /\ cap' = release_capture
                 /\ thread_event' = "read_failed"
                 /\ handle_connection_failure
                 /\ UNCHANGED <<frame, frame_count, late_frame, pub_since_rd>>
    /\ UNCHANGED <<running, retry_delay, capture_thread, after_backoff>>
    /\ UNCHANGED <<stop_pc, join_left, stop_returned, stop_in_sleep, since_stop,
                   n_start, n_stop, spawned, rd_seq, rd_ok, rd_frame, rd_repeat>>
    /\ UNCHANGED <<source_up, redisVars, procVars, syncVars>>
    /\ UNCHANGED <<matcherVars, verifierVars, serviceVars>>
    /\ UNCHANGED detectorVars
    /\ UNCHANGED concurrencyVars

\* time.sleep(self.retry_delay) returns (234-235): only after the whole delay.
Wake ==
    /\ thread_pc = "sleep"
    /\ sleep_left = 0
    /\ retry_delay' = next_retry_delay(retry_delay)
    /\ thread_pc' = "loop"
    /\ thread_event' = "woke"
    /\ UNCHANGED <<running, connected, cap, frame, frame_count, error_count,
                   retry_count, capture_thread, sleep_left, after_backoff,
                   escalation_log>>
    /\ UNCHANGED <<callerVars, readerVars, source_up, redisVars, procVars, syncVars>>
    /\ UNCHANGED <<matcherVars, verifierVars, serviceVars>>
    /\ UNCHANGED detectorVars
    /\ UNCHANGED concurrencyVars

\* Time passes, up to the next end of a sleep or of a join; a sleep or a join
\* whose time is up ends before more time passes.
Timers == (IF thread_pc = "sleep" /\ sleep_left > 0 THEN {sleep_left} ELSE {})
          \cup (IF stop_pc = "join" /\ join_left > 0 THEN {join_left} ELSE {})

Elapse ==
    /\ Timers # {}
    /\ ~(thread_pc = "sleep" /\ sleep_left = 0)
    /\ ~(stop_pc = "join" /\ join_left = 0)
    /\ \E d \in Timers :
         /\ \A t \in Timers : d <= t
         /\ sleep_left' = IF thread_pc = "sleep" /\ sleep_left > 0
                          THEN sleep_left - d ELSE sleep_left
         /\ join_left' = IF stop_pc = "join" /\ join_left > 0
                         THEN join_left - d ELSE join_left
         /\ since_stop' = IF stop_in_sleep /\ thread_pc = "sleep" /\ sleep_left > 0
                          THEN Min(since_stop + d, initial_retry_delay + 1)
                          ELSE since_stop
    /\ UNCHANGED <<running, connected, cap, frame, frame_count, error_count,
                   retry_count, retry_delay, capture_thread, thread_pc, thread_event,
                   after_backoff, escalation_log>>
    /\ UNCHANGED <<stop_pc, stop_returned, late_frame, stop_in_sleep, n_start,
                   n_stop, spawned>>
    /\ UNCHANGED <<readerVars, source_up, redisVars, procVars, syncVars>>
    /\ UNCHANGED <<matcherVars, verifierVars, serviceVars>>
    /\ UNCHANGED detectorVars
    /\ UNCHANGED concurrencyVars

\* The camera goes away or comes back.
SourceFlip ==
    /\ source_up' = ~source_up
    /\ UNCHANGED <<captureVars, callerVars, readerVars, redisVars, procVars, syncVars>>
    /\ UNCHANGED <<matcherVars, verifierVars, serviceVars>>
    /\ UNCHANGED detectorVars
    /\ UNCHANGED concurrencyVars

\* The capture thread, the clock and the camera.
NextWorker ==
    \/ LoopCheck
    \/ ConnectOpen
    \/ ConnectRead
    \/ ReadEnd
    \/ Wake
    \/ Elapse
    \/ SourceFlip

\* No thread of an earlier start() is left.
InitPrevious ==
    /\ old_pc = "none"
    /\ old_wrote = FALSE

\* start() (134-144) called after a stop() that returned while the thread was
\* still in _capture_loop (its join timed out): running is False, so start()
\* sets it, makes a new Thread and overwrites self.capture_thread.  The
\* previous thread stays where it was.
Restart ==
    /\ stop_pc = "idle"
    /\ n_start < MaxStarts
    /\ ~start_is_noop
    /\ thread_pc \notin {"none", "done"}
    /\ old_pc \in {"none", "done"}
    /\ n_start' = n_start + 1
    /\ running' = TRUE
    /\ capture_thread' = 1
    /\ old_pc' = thread_pc
    /\ old_wrote' = FALSE
    /\ thread_pc' = "loop"
    /\ thread_event' = "spawn"
    /\ spawned' = spawned + 1
    /\ stop_returned' = FALSE
    /\ late_frame' = FALSE
    /\ stop_in_sleep' = FALSE
    /\ since_stop' = 0
    /\ UNCHANGED <<connected, cap, frame, frame_count, error_count, retry_count,
                   retry_delay, sleep_left, after_backoff, escalation_log>>
    /\ UNCHANGED <<stop_pc, join_left, n_stop>>
    /\ UNCHANGED <<readerVars, source_up, redisVars, procVars, syncVars>>
    /\ UNCHANGED <<matcherVars, verifierVars, serviceVars>>
    /\ UNCHANGED <<detectorVars, overlapVars, reaperVars>>

\* _handle_connection_failure up to its sleep (214-234), in the previous thread
previous_handle_connection_failure ==
    /\ retry_count' = retry_count + 1
    /\ escalation_log' =
          IF retry_count + 1 = 3 THEN escalation_log \cup {"warning"}
          ELSE IF retry_count + 1 = 10 THEN escalation_log \cup {"critical"}
          ELSE escalation_log
    /\ old_pc' = pc_after_failure

\* The previous thread at "while self.running" and "if not self.connected"
\* (164-173): it reads the same self.running the new start() has set.
PreviousLoopCheck ==
    /\ old_pc = "loop"
    /\ IF ~running
       THEN /\ old_pc' = "done"
            /\ UNCHANGED <<connected, cap, error_count, retry_count, escalation_log>>
       ELSE IF ~connected
       THEN /\ old_pc' = "connect"
            /\ UNCHANGED <<connected, cap, error_count, retry_count, escalation_log>>
       ELSE IF cap = "open"
       THEN /\ old_pc' = "read"
            /\ UNCHANGED <<connected, cap, error_count, retry_count, escalation_log>>
       ELSE /\ error_count < MaxErrors
            /\ retry_count < MaxRetries
            /\ error_count' = error_count + 1
            /\ connected' = FALSE
            /\ cap' = release_capture
            /\ previous_handle_connection_failure
    /\ UNCHANGED <<running, frame, frame_count, retry_delay, capture_thread,
                   thread_pc, sleep_left, thread_event, after_backoff, old_wrote>>
    /\ UNCHANGED <<callerVars, readerVars, source_up, redisVars, procVars, syncVars>>
    /\ UNCHANGED <<matcherVars, verifierVars, serviceVars>>
    /\ UNCHANGED <<detectorVars, overlapVars, reaperVars>>

\* connect() in the previous thread: the new VideoCapture (96-97)
PreviousConnectOpen ==
    /\ old_pc = "connect"
    /\ cap' = IF source_up THEN "open" ELSE "unopened"
    /\ old_pc' = "connect_read"
    /\ UNCHANGED <<running, connected, frame, frame_count, error_count, retry_count,
                   retry_delay, capture_thread, thread_pc, sleep_left, thread_event,
                   after_backoff, escalation_log, old_wrote>>
    /\ UNCHANGED <<callerVars, readerVars, source_up, redisVars, procVars, syncVars>>
    /\ UNCHANGED <<matcherVars, verifierVars, serviceVars>>
    /\ UNCHANGED <<detectorVars, overlapVars, reaperVars>>

\* connect() in the previous thread from its test read on (100-132)
PreviousConnectRead ==
    /\ old_pc = "connect_read"
    /\ IF cap = "open" /\ source_up
       THEN /\ connected' = TRUE
            /\ after_backoff' = (retry_count >= 2)
            /\ retry_count' = 0
            /\ retry_delay' = connect_retry_delay
            /\ old_pc' = "read"
            /\ UNCHANGED escalation_log
       ELSE /\ retry_count < MaxRetries
            /\ connected' = FALSE
            /\ previous_handle_connection_failure
            /\ UNCHANGED <<retry_delay, after_backoff>>
    /\ UNCHANGED <<running, cap, frame, frame_count, error_count, capture_thread,
                   thread_pc, sleep_left, thread_event, old_wrote>>
    /\ UNCHANGED <<callerVars, readerVars, source_up, redisVars, procVars, syncVars>>
    /\ UNCHANGED <<matcherVars, verifierVars, serviceVars>>
    /\ UNCHANGED <<detectorVars, overlapVars, reaperVars>>

\* self.cap.read() returns in the previous thread (173-205): success writes
\* the slot under frame_lock, failure is the except branch.
PreviousReadEnd ==
    /\ old_pc = "read"
    /\ \E ok \in BOOLEAN, px \in 1..NumPixels :
         /\ ok => source_up
         /\ (cap = "open" /\ source_up) => ok
         /\ IF ok
            THEN /\ frame_count < MaxFrames
                 /\ frame' = published_frame(px)
                 /\ frame_count' = next_frame_count
                 /\ error_count' = 0
                 /\ old_pc' = "loop"
                 /\ old_wrote' = TRUE
                 /\ late_frame' = stop_returned
                 /\ pub_since_rd' = TRUE
                 /\ UNCHANGED <<connected, cap, retry_count, escalation_log>>
            ELSE /\ error_count < MaxErrors
                 /\ retry_count < MaxRetries
                 /\ error_count' = error_count + 1
                 /\ connected' = FALSE
                 /\ cap' = release_capture
                 /\ previous_handle_connection_failure
                 /\ UNCHANGED <<frame, frame_count, late_frame, pub_since_rd, old_wrote>>
    /\ UNCHANGED <<running, retry_delay, capture_thread, thread_pc, sleep_left,
                   thread_event, after_backoff>>
    /\ UNCHANGED <<stop_pc, join_left, stop_returned, stop_in_sleep, since_stop,
                   n_start, n_stop, spawned, rd_seq, rd_ok, rd_frame, rd_repeat>>
    /\ UNCHANGED <<source_up, redisVars, procVars, syncVars>>
    /\ UNCHANGED <<matcherVars, verifierVars, serviceVars>>
    /\ UNCHANGED <<detectorVars, overlapVars, reaperVars>>

\* time.sleep(self.retry_delay) returns in the previous thread (234-235), at
\* some moment after the start() that left it behind.
PreviousWake ==
    /\ old_pc = "sleep"
    /\ retry_delay' = next_retry_delay(retry_delay)
    /\ old_pc' = "loop"
    /\ UNCHANGED <<running, connected, cap, frame, frame_count, error_count,
                   retry_count, capture_thread, thread_pc, sleep_left, thread_event,
                   after_backoff, escalation_log, old_wrote>>
    /\ UNCHANGED <<callerVars, readerVars, source_up, redisVars, procVars, syncVars>>
    /\ UNCHANGED <<matcherVars, verifierVars, serviceVars>>
    /\ UNCHANGED <<detectorVars, overlapVars, reaperVars>>

\* The stream with a caller that also restarts it after a stop() whose join
\* timed out, and the thread such a restart leaves behind.
NextRestart ==
    \/ Start
    \/ StopBegin
    \/ StopEnd
    \/ Restart
    \/ NextWorker
    \/ PreviousLoopCheck
    \/ PreviousConnectOpen
    \/ PreviousConnectRead
    \/ PreviousReadEnd
    \/ PreviousWake

\* The stream with the caller that starts and stops it.
NextCapture ==
    \/ Start
    \/ StopBegin
    \/ StopEnd
    \/ NextWorker

\* The started stream with the caller that reads its frame slot.
NextReader ==
    \/ Start
    \/ ReadFrame
    \/ NextWorker

(***************************************************************************)
(* RedisClient and the face path of main.py                                *)
(***************************************************************************)

InitPublisher ==
    /\ primary = <<>>
    /\ buffer = <<>>
    /\ next_id = 1
    /\ alerts = <<>>
    /\ primary_ok = TRUE
    /\ buffer_ok = TRUE
    /\ frame_counter = 0
    /\ enrolled = FALSE
    /\ person_counts = <<>>
    /\ call_log = <<>>
    /\ faces_left = 0
    /\ n_events = 0
    /\ rejected = {}
    /\ sync_pc = "idle"
    /\ sync_msgs = <<>>
    /\ sync_snapshot = <<>>
    /\ synced = 0
    /\ sync_result = 0
    /\ sync_clean = FALSE
    /\ sync_fresh = FALSE

\* redis xadd(stream, data, maxlen=n): append, keeping the newest n entries
XAdd(stream, entry, maxlen) ==
    LET s == Append(stream, entry)
    IN  IF Len(s) > maxlen THEN Tail(s) ELSE s

\* publish_face_event(event_data) (94-118): the primary stream afterwards
primary_after_publish(event_data) ==
    IF primary_ok THEN XAdd(primary, event_data, PRIMARY_MAXLEN) ELSE primary

\* publish_face_event(event_data, use_buffer=True) (94-118): the buffer afterwards
buffer_after_publish(event_data) ==
    IF buffer_ok
    THEN XAdd(buffer, [id |-> next_id, data |-> event_data], MAX_BUFFER_SIZE)
    ELSE buffer

\* publish_face_event and publish_face_detection catch every Exception
\* (116-118, 313-314): neither raises into process_face.
publish_raises == FALSE

\* The primary log starts or stops accepting writes.
PrimaryFlip ==
    /\ primary_ok' = ~primary_ok
    /\ sync_clean' = (sync_clean /\ ~primary_ok)
    /\ UNCHANGED <<primary, buffer, next_id, alerts, buffer_ok>>
    /\ UNCHANGED <<sync_pc, sync_msgs, sync_snapshot, synced, sync_result, sync_fresh>>
    /\ UNCHANGED <<captureVars, callerVars, readerVars, source_up, procVars>>
    /\ UNCHANGED <<matcherVars, verifierVars, serviceVars>>
    /\ UNCHANGED detectorVars
    /\ UNCHANGED concurrencyVars

\* The buffer log starts or stops answering.
BufferFlip ==
    /\ buffer_ok' = ~buffer_ok
    /\ sync_clean' = (sync_clean /\ ~buffer_ok)
    /\ UNCHANGED <<primary, buffer, next_id, alerts, primary_ok>>
    /\ UNCHANGED <<sync_pc, sync_msgs, sync_snapshot, synced, sync_result, sync_fresh>>
    /\ UNCHANGED <<captureVars, callerVars, readerVars, source_up, procVars>>
    /\ UNCHANGED <<matcherVars, verifierVars, serviceVars>>
    /\ UNCHANGED detectorVars
    /\ UNCHANGED concurrencyVars

\* The enrollment collaborator fills or empties state.registered_persons.
LoadEnrollment ==
    /\ enrolled' = ~enrolled
    /\ UNCHANGED <<frame_counter, person_counts, faces_left, n_events, rejected,
                   call_log>>
    /\ UNCHANGED <<captureVars, callerVars, readerVars, source_up, redisVars, syncVars>>
    /\ UNCHANGED <<matcherVars, verifierVars, serviceVars>>
    /\ UNCHANGED detectorVars
    /\ UNCHANGED concurrencyVars

runs_face_pipeline_from_zero(frame_number) ==
    (frame_number - 1) % PROCESS_EVERY_N_FRAMES = 0

\* process_frame: "if frame_number % settings.PROCESS_EVERY_N_FRAMES != 0: return"
runs_face_pipeline(frame_number) == frame_number % PROCESS_EVERY_N_FRAMES = 0

count_frame_number_prev(frame_number) == frame_number - 1

\* process_frame: the "frame_number" of the person count it publishes (286-293)
count_frame_number(frame_number) == frame_number

\* A call of the processing loop: publish_person_count ("count"),
\* detect_faces ("detect") or publish_face_event ("face"), with the frame
\* number it carries, whether the log took the write, and for a face the
\* number of faces of the frame not yet handled before it.
Call(kind, frame_number, ok, left) ==
    [kind |-> kind, frame_number |-> frame_number, ok |-> ok, left |-> left]

\* The calls of process_frame before its loop over the faces (281-303)
process_frame_calls(frame_number) ==
    <<Call("count", count_frame_number(frame_number), primary_ok, 0)>>
    \o (IF runs_face_pipeline(frame_number)
        THEN <<Call("detect", frame_number, TRUE, 0)>>
        ELSE <<>>)

\* One turn of processing_loop with a frame in the slot (250-262) and
\* process_frame up to its loop over the faces (281-311): the person count
\* is published, and every PROCESS_EVERY_N_FRAMES-th frame has its faces
\* detected.
ProcessFrame ==
    /\ faces_left = 0
    /\ frame_counter < MaxTicks
    /\ call_log' = call_log \o process_frame_calls(frame_counter + 1)
    /\ frame_counter' = frame_counter + 1
    /\ person_counts' = IF primary_ok
                        THEN XAdd(person_counts, count_frame_number(frame_counter + 1),
                                  PRIMARY_MAXLEN)
                        ELSE person_counts
    /\ IF ~runs_face_pipeline(frame_counter + 1)
       THEN faces_left' = 0
       ELSE faces_left' \in 0..MaxFaces
    /\ UNCHANGED <<enrolled, n_events, rejected>>
    /\ UNCHANGED <<captureVars, callerVars, readerVars, source_up, redisVars, syncVars>>
    /\ UNCHANGED <<matcherVars, verifierVars, serviceVars>>
    /\ UNCHANGED detectorVars
    /\ UNCHANGED concurrencyVars

\* process_face for the next face of the frame (315-399).  A face without an
\* embedding, or any face while nobody is enrolled, is skipped; a MATCH is
\* published to the primary log (and broadcast); the buffer is written only
\* in the except branch of 392-396.
ProcessFace ==
    /\ faces_left > 0
    /\ faces_left' = faces_left - 1
    /\ \E decision \in {"SKIP", "NO_MATCH", "MATCH"} :
         /\ (decision # "SKIP") => enrolled
         /\ IF decision = "MATCH"
            THEN /\ n_events < MaxEvents
                 /\ LET event_data == [frame_number |-> frame_counter,
                                       timestamp |-> n_events + 1]
                    IN  /\ n_events' = n_events + 1
                        /\ primary' = primary_after_publish(event_data)
                        /\ IF publish_raises
                           THEN /\ buffer' = buffer_after_publish(event_data)
                                /\ next_id' = IF buffer_ok THEN next_id + 1 ELSE next_id
                           ELSE UNCHANGED <<buffer, next_id>>
                        /\ rejected' = IF ~primary_ok /\ buffer_ok
                                       THEN rejected \cup {event_data.timestamp}
                                       ELSE rejected
                        /\ call_log' = Append(call_log,
                                              Call("face", event_data.frame_number,
                                                   primary_ok, faces_left))
            ELSE UNCHANGED <<n_events, primary, buffer, next_id, rejected, call_log>>
    /\ UNCHANGED <<frame_counter, enrolled, person_counts>>
    /\ UNCHANGED <<alerts, primary_ok, buffer_ok>>
    /\ UNCHANGED <<captureVars, callerVars, readerVars, source_up, syncVars>>
    /\ UNCHANGED <<matcherVars, verifierVars, serviceVars>>
    /\ UNCHANGED detectorVars
    /\ UNCHANGED concurrencyVars

\* A caller of RedisClient.publish_face_event(event_data, use_buffer=True)
\* (79-118) during an outage of the primary log.
BufferedPublish ==
    /\ ~primary_ok
    /\ n_events < MaxEvents
    /\ LET event_data == [frame_number |-> frame_counter, timestamp |-> n_events + 1]
       IN  /\ buffer' = buffer_after_publish(event_data)
           /\ next_id' = IF buffer_ok THEN next_id + 1 ELSE next_id
    /\ n_events' = n_events + 1
    /\ UNCHANGED <<frame_counter, enrolled, person_counts, faces_left, rejected,
                   call_log>>
    /\ UNCHANGED <<primary, alerts, primary_ok, buffer_ok>>
    /\ UNCHANGED <<captureVars, callerVars, readerVars, source_up, syncVars>>
    /\ UNCHANGED <<matcherVars, verifierVars, serviceVars>>
    /\ UNCHANGED detectorVars
    /\ UNCHANGED concurrencyVars

xrevrange(stream) == [i \in 1..Len(stream) |-> stream[Len(stream) + 1 - i]]

\* redis xrange(stream): every entry, oldest first
xrange(stream) == stream

\* redis xdel(stream, id)
XDel(stream, id) == SelectSeq(stream, LAMBDA m : m.id # id)

\* POST /sync-buffer (main.py 467-475) enters sync_buffer_to_stream
\* (345-356): messages = xrange(buffer), synced = 0.  A failing xrange is
\* the except branch: return 0.
SyncBegin ==
    /\ sync_pc \in {"idle", "returned"}
    /\ sync_clean' = (primary_ok /\ buffer_ok)
    /\ IF buffer_ok
       THEN /\ sync_msgs' = xrange(buffer)
            /\ sync_snapshot' = buffer
            /\ sync_fresh' = \A i \in 1..Len(buffer), j \in 1..Len(primary) :
                                  buffer[i].data # primary[j]
            /\ synced' = 0
            /\ sync_result' = 0
            /\ sync_pc' = IF buffer = <<>> THEN "returned" ELSE "copy"
       ELSE /\ sync_msgs' = <<>>
            /\ sync_snapshot' = <<>>
            /\ sync_fresh' = FALSE
            /\ synced' = 0
            /\ sync_result' = 0
            /\ sync_pc' = "returned"
    /\ UNCHANGED <<redisVars, procVars>>
    /\ UNCHANGED <<captureVars, callerVars, readerVars, source_up>>
    /\ UNCHANGED <<matcherVars, verifierVars, serviceVars>>
    /\ UNCHANGED detectorVars
    /\ UNCHANGED concurrencyVars

pc_after_failed_xadd_ignored == "delete"

\* Where the drain is after its xadd raised: in the except branch (375-377),
\* which returns 0.
pc_after_failed_xadd == "returned"

\* The xadd of the loop (357-363): the next message is copied to the
\* primary log.  A failing xadd is the except branch: return 0.
SyncCopy ==
    /\ sync_pc = "copy"
    /\ Len(primary) < MaxLog
    /\ IF primary_ok
       THEN /\ primary' = XAdd(primary, Head(sync_msgs).data, PRIMARY_MAXLEN)
            /\ sync_pc' = "delete"
            /\ UNCHANGED sync_result
       ELSE /\ sync_pc' = pc_after_failed_xadd
            /\ sync_result' = 0
            /\ UNCHANGED primary
    /\ UNCHANGED <<buffer, next_id, alerts, primary_ok, buffer_ok>>
    /\ UNCHANGED <<sync_msgs, sync_snapshot, synced, sync_clean, sync_fresh>>
    /\ UNCHANGED <<captureVars, callerVars, readerVars, source_up, procVars>>
    /\ UNCHANGED <<matcherVars, verifierVars, serviceVars>>
    /\ UNCHANGED detectorVars
    /\ UNCHANGED concurrencyVars

\* The xdel of the loop and "synced += 1" (365-368); after the last message
\* "return synced" (373).  A failing xdel is the except branch: return 0.
SyncDelete ==
    /\ sync_pc = "delete"
    /\ IF buffer_ok
       THEN /\ buffer' = XDel(buffer, Head(sync_msgs).id)
            /\ synced' = synced + 1
            /\ sync_msgs' = Tail(sync_msgs)
            /\ IF Tail(sync_msgs) = <<>>
               THEN sync_pc' = "returned" /\ sync_result' = synced + 1
               ELSE sync_pc' = "copy" /\ UNCHANGED sync_result
       ELSE /\ sync_pc' = "returned"
            /\ sync_result' = 0
            /\ UNCHANGED <<buffer, synced, sync_msgs>>
    /\ UNCHANGED <<primary, next_id, alerts, primary_ok, buffer_ok>>
    /\ UNCHANGED <<sync_snapshot, sync_clean, sync_fresh>>
    /\ UNCHANGED <<captureVars, callerVars, readerVars, source_up, procVars>>
    /\ UNCHANGED <<matcherVars, verifierVars, serviceVars>>
    /\ UNCHANGED detectorVars
    /\ UNCHANGED concurrencyVars

\* No second /sync-buffer call has been made.
InitOverlap ==
    /\ overlap_pc = "idle"
    /\ overlap_msgs = <<>>

\* A second POST /sync-buffer (main.py 467-475), served by the same event
\* loop while the first call is suspended at an await: it enters
\* sync_buffer_to_stream (345-356) with its own messages and synced.
\* Nothing in sync_buffer or sync_buffer_to_stream takes a lock.
OverlapBegin ==
    /\ overlap_pc \in {"idle", "returned"}
    /\ IF buffer_ok
       THEN /\ overlap_msgs' = xrange(buffer)
            /\ overlap_pc' = IF buffer = <<>> THEN "returned" ELSE "copy"
       ELSE /\ overlap_msgs' = <<>>
            /\ overlap_pc' = "returned"
    /\ UNCHANGED <<redisVars, procVars, syncVars>>
    /\ UNCHANGED <<captureVars, callerVars, readerVars, source_up>>
    /\ UNCHANGED <<matcherVars, verifierVars, serviceVars>>
    /\ UNCHANGED <<detectorVars, previousVars, reaperVars>>

\* The xadd of the second call's loop (357-363).
OverlapCopy ==
    /\ overlap_pc = "copy"
    /\ Len(primary) < MaxLog
    /\ IF primary_ok
       THEN /\ primary' = XAdd(primary, Head(overlap_msgs).data, PRIMARY_MAXLEN)
            /\ overlap_pc' = "delete"
       ELSE /\ overlap_pc' = pc_after_failed_xadd
            /\ UNCHANGED primary
    /\ UNCHANGED <<buffer, next_id, alerts, primary_ok, buffer_ok>>
    /\ UNCHANGED overlap_msgs
    /\ UNCHANGED <<captureVars, callerVars, readerVars, source_up, procVars, syncVars>>
    /\ UNCHANGED <<matcherVars, verifierVars, serviceVars>>
    /\ UNCHANGED <<detectorVars, previousVars, reaperVars>>

\* The xdel of the second call's loop (365-368): deleting an id the other
\* call already deleted removes nothing and raises nothing.
OverlapDelete ==
    /\ overlap_pc = "delete"
    /\ IF buffer_ok
       THEN /\ buffer' = XDel(buffer, Head(overlap_msgs).id)
            /\ overlap_msgs' = Tail(overlap_msgs)
            /\ overlap_pc' = IF Tail(overlap_msgs) = <<>> THEN "returned" ELSE "copy"
       ELSE /\ overlap_pc' = "returned"
            /\ UNCHANGED <<buffer, overlap_msgs>>
    /\ UNCHANGED <<primary, next_id, alerts, primary_ok, buffer_ok>>
    /\ UNCHANGED <<captureVars, callerVars, readerVars, source_up, procVars, syncVars>>
    /\ UNCHANGED <<matcherVars, verifierVars, serviceVars>>
    /\ UNCHANGED <<detectorVars, previousVars, reaperVars>>

\* Two /sync-buffer calls interleaved at their awaits, the buffer's writer
\* and the primary log's outages.
NextOverlap ==
    \/ PrimaryFlip
    \/ BufferedPublish
    \/ SyncBegin
    \/ SyncCopy
    \/ SyncDelete
    \/ OverlapBegin
    \/ OverlapCopy
    \/ OverlapDelete

\* The processing loop publishing while the buffer is written during an
\* outage of the primary log and drained afterwards.
NextOrder ==
    \/ PrimaryFlip
    \/ LoadEnrollment
    \/ ProcessFrame
    \/ ProcessFace
    \/ BufferedPublish
    \/ SyncBegin
    \/ SyncCopy
    \/ SyncDelete

\* The processing loop with its publisher calls, and the two logs' outages.
NextScheduler ==
    \/ PrimaryFlip
    \/ BufferFlip
    \/ LoadEnrollment
    \/ ProcessFrame
    \/ ProcessFace

\* The buffer log, its writer and the drain, and the two logs' outages.
NextPublisher ==
    \/ PrimaryFlip
    \/ BufferFlip
    \/ BufferedPublish
    \/ SyncBegin
    \/ SyncCopy
    \/ SyncDelete

(***************************************************************************)
(* ArcFaceRecognizer.recognize_face (recognizer.py)                        *)
(*                                                                         *)
(* A registered embedding is [person_id, is_active, similarity]: the       *)
(* similarity is what compute_similarity returns for the query and that    *)
(* embedding, in hundredths.  A mean is kept as <<sum, count>> and a vote   *)
(* percentage as <<votes, total>>, so that no rounding enters.             *)
(***************************************************************************)

\* The registered embeddings the model enrolls: every active one, and for
\* each person an inactive one that would vote if it were counted.
RegisteredEmbedding(person_id, is_active, similarity) ==
    [person_id |-> person_id, is_active |-> is_active, similarity |-> similarity]

Embeddings ==
    {RegisteredEmbedding(p, TRUE, sim) : p \in PersonIds, sim \in Similarities}
    \cup {RegisteredEmbedding(p, FALSE, SIMILARITY_THRESHOLD + 5) : p \in PersonIds}

\* RecognitionResult (recognizer.py 50-69), without full_name
RecognitionResult(person_id, similarity, vote_count, total_embeddings, decision) ==
    [person_id |-> person_id, similarity |-> similarity, vote_count |-> vote_count,
     total_embeddings |-> total_embeddings,
     vote_percentage |-> <<vote_count, total_embeddings>>, decision |-> decision]

\* No call of recognize_face has returned for the registered embeddings.
NotCalled == [decision |-> "NOT_CALLED"]

InitMatcher ==
    /\ registered_embeddings = <<>>
    /\ rec_result = NotCalled

\* "if not item.get('is_active', True): continue" (277-279)
ActiveItems(items) == SelectSeq(items, LAMBDA item : item.is_active)

\* The keys of person_embeddings in the order the dict got them (281-287)
RECURSIVE PersonOrder(_)
PersonOrder(items) ==
    IF items = <<>>
    THEN <<>>
    ELSE LET before == PersonOrder(SubSeq(items, 1, Len(items) - 1))
             person_id == items[Len(items)].person_id
         IN  IF \E i \in 1..Len(before) : before[i] = person_id
             THEN before
             ELSE Append(before, person_id)

\* "similarities" of one person (298-301)
SimilaritiesOf(items, person_id) ==
    LET own == SelectSeq(items, LAMBDA item : item.person_id = person_id)
    IN  [i \in 1..Len(own) |-> own[i].similarity]

RECURSIVE SumSeq(_)
SumSeq(q) == IF q = <<>> THEN 0 ELSE Head(q) + SumSeq(Tail(q))

\* "sum(1 for sim in similarities if sim > similarity_threshold)" (304)
high_confidence_votes(similarities) ==
    Cardinality({i \in 1..Len(similarities) : similarities[i] > SIMILARITY_THRESHOLD})

\* The best_match dict a person would give (312-320); best_match None is
\* the candidate of NoPerson.
Candidate(items, person_id) ==
    LET similarities == SimilaritiesOf(items, person_id)
    IN  [person_id |-> person_id,
         vote_count |-> high_confidence_votes(similarities),
         total_embeddings |-> Len(similarities),
         similarity |-> <<SumSeq(similarities), Len(similarities)>>]

NoCandidate ==
    [person_id |-> NoPerson, vote_count |-> 0, total_embeddings |-> 0,
     similarity |-> <<0, 1>>]

\* "if vote_percentage > best_vote_percentage" (309), best_vote_percentage
\* being 0.0 as long as best_match is None
beats_best(candidate, best) ==
    IF best.person_id = NoPerson
    THEN candidate.vote_count > 0
    ELSE candidate.vote_count * best.total_embeddings
            > best.vote_count * candidate.total_embeddings

\* best_match after the first k persons of the loop (294-320)
RECURSIVE BestMatch(_, _, _)
BestMatch(items, order, k) ==
    IF k = 0
    THEN NoCandidate
    ELSE LET best == BestMatch(items, order, k - 1)
             candidate == Candidate(items, order[k])
         IN  IF beats_best(candidate, best) THEN candidate ELSE best

meets_voting_threshold_strictly(vote_count, total_embeddings) ==
    100 * vote_count > VOTING_THRESHOLD * total_embeddings

\* "if best_vote_percentage >= voting_threshold" (335)
meets_voting_threshold(vote_count, total_embeddings) ==
    100 * vote_count >= VOTING_THRESHOLD * total_embeddings

\* recognize_face(query_embedding, registered_embeddings) (241-348)
recognize_face(items) ==
    LET active == ActiveItems(items)
        order == PersonOrder(active)
        best_match == BestMatch(active, order, Len(order))
    IN  IF best_match.person_id = NoPerson
        THEN RecognitionResult(NoPerson, <<0, 1>>, 0, 0, "UNKNOWN")
        ELSE RecognitionResult(best_match.person_id, best_match.similarity,
                               best_match.vote_count, best_match.total_embeddings,
                               IF meets_voting_threshold(best_match.vote_count,
                                                         best_match.total_embeddings)
                               THEN "MATCH" ELSE "NO_MATCH")

\* The enrollment collaborator registers one more embedding.
Enroll ==
    /\ Len(registered_embeddings) < MaxEmbeddings
    /\ \E item \in Embeddings :
         registered_embeddings' = Append(registered_embeddings, item)
    /\ rec_result' = NotCalled
    /\ UNCHANGED <<captureVars, callerVars, readerVars, source_up, redisVars,
                   procVars, syncVars, verifierVars, serviceVars>>
    /\ UNCHANGED detectorVars
    /\ UNCHANGED concurrencyVars

\* process_face calls recognize_face with the registered embeddings (342-345).
Recognize ==
    /\ rec_result' = recognize_face(registered_embeddings)
    /\ UNCHANGED registered_embeddings
    /\ UNCHANGED <<captureVars, callerVars, readerVars, source_up, redisVars,
                   procVars, syncVars, verifierVars, serviceVars>>
    /\ UNCHANGED detectorVars
    /\ UNCHANGED concurrencyVars

NextMatcher ==
    \/ Enroll
    \/ Recognize

(***************************************************************************)
(* MultiFrameVerifier (voting.py)                                          *)
(***************************************************************************)

\* A FrameVerification (voting.py 19-28): a timestamp in seconds and the
\* RecognitionResult of one frame.
FrameVerification(timestamp, result) == [timestamp |-> timestamp, result |-> result]

\* The per-frame results the model records: a MATCH for each person, with
\* similarity 0.40 from a single-vote enrollment, and a NO_MATCH.
FrameResults ==
    {RecognitionResult(p, <<40, 1>>, 1, 1, "MATCH") : p \in ObservedPersons}
    \cup {RecognitionResult("E1", <<30, 1>>, 0, 1, "NO_MATCH")}

\* verify_identity returned None.
NoResult == [decision |-> "NONE"]

InitVerifier ==
    /\ verification_history = [t \in {} |-> <<>>]
    /\ verify_result = NotCalled
    /\ verify_now = 0
    /\ verify_track = "None"
    /\ evicted = <<>>

\* A deque that replaces its newest element when it is full.
deque_append_replacing_newest(history, verification) ==
    IF Len(history) >= 2 * VERIFICATION_FRAMES
    THEN Append(SubSeq(history, 1, Len(history) - 1), verification)
    ELSE Append(history, verification)

\* deque(maxlen=self.verification_frames * 2).append (92-99)
deque_append(history, verification) ==
    IF Len(history) >= 2 * VERIFICATION_FRAMES
    THEN Append(Tail(history), verification)
    ELSE Append(history, verification)

\* The history of a track, empty while the track has no deque yet (92-95)
HistoryOf(tracking_id) ==
    IF tracking_id \in DOMAIN verification_history
    THEN verification_history[tracking_id]
    ELSE <<>>

\* add_verification(tracking_id, result, timestamp) (74-107)
add_verification(tracking_id, result, timestamp) ==
    /\ verification_history' =
          [t \in DOMAIN verification_history \cup {tracking_id} |->
              IF t = tracking_id
              THEN deque_append(HistoryOf(tracking_id),
                                FrameVerification(timestamp, result))
              ELSE verification_history[t]]
    /\ evicted' = IF Len(HistoryOf(tracking_id)) >= 2 * VERIFICATION_FRAMES
                  THEN <<tracking_id, Head(HistoryOf(tracking_id))>>
                  ELSE <<>>
    /\ verify_result' = NotCalled
    /\ verify_now' = 0
    /\ verify_track' = "None"
    /\ UNCHANGED <<captureVars, callerVars, readerVars, source_up, redisVars,
                   procVars, syncVars, matcherVars, serviceVars>>
    /\ UNCHANGED detectorVars
    /\ UNCHANGED concurrencyVars

\* A caller records the result of one frame of a track under verification.
AddVerification ==
    \E tracking_id \in TrackIds, timestamp \in Timestamps, result \in FrameResults :
        /\ Len(HistoryOf(tracking_id)) < MaxObservations
        /\ add_verification(tracking_id, result, timestamp)

\* A caller keeps recording frames of long-lived tracks: the deques fill up.
AddToHistory ==
    \E tracking_id \in HistoryTracks, timestamp \in HistoryTimestamps :
        add_verification(tracking_id,
                         RecognitionResult("E1", <<40, 1>>, 1, 1, "MATCH"),
                         timestamp)

\* "max_age = self.verification_interval * (self.verification_frames - 1) + 5"
max_age == VERIFICATION_INTERVAL * (VERIFICATION_FRAMES - 1) + WindowSlack

\* "time_diff = (now - verification.timestamp).total_seconds()" and
\* "if time_diff > max_age: continue" (143-149)
in_window(now, timestamp) == ~(now - timestamp > max_age)

\* recent_verifications (138-154): from the most recent one on, the first
\* VERIFICATION_FRAMES verifications that pass the window test
RECURSIVE recent_verifications(_, _, _)
recent_verifications(history, now, found) ==
    IF history = <<>> \/ Len(found) >= VERIFICATION_FRAMES
    THEN found
    ELSE LET verification == history[Len(history)]
             older == SubSeq(history, 1, Len(history) - 1)
         IN  IF in_window(now, verification.timestamp)
             THEN recent_verifications(older, now, Append(found, verification))
             ELSE recent_verifications(older, now, found)

\* The keys of "votes" in the order the dict got them, and the results of
\* one key (207-220): only MATCH decisions are counted.
MatchResults(verifications) ==
    LET matches == SelectSeq(verifications, LAMBDA v : v.result.decision = "MATCH")
    IN  [i \in 1..Len(matches) |-> matches[i].result]

VotesFor(verifications, person_id) ==
    SelectSeq(MatchResults(verifications), LAMBDA r : r.person_id = person_id)

\* A max that keeps the last key among those with the most votes.
best_person_id_last(verifications) ==
    LET keys == PersonOrder(MatchResults(verifications))
        last == CHOOSE i \in 1..Len(keys) :
                    /\ \A j \in 1..Len(keys) :
                          Len(VotesFor(verifications, keys[j]))
                             <= Len(VotesFor(verifications, keys[i]))
                    /\ \A j \in (i + 1)..Len(keys) :
                          Len(VotesFor(verifications, keys[j]))
                             < Len(VotesFor(verifications, keys[i]))
    IN  keys[last]

\* "max(votes.keys(), key=lambda pid: len(votes[pid]))" (232): the first key
\* among those with the most votes
best_person_id(verifications) ==
    LET keys == PersonOrder(MatchResults(verifications))
        first == CHOOSE i \in 1..Len(keys) :
                    /\ \A j \in 1..Len(keys) :
                          Len(VotesFor(verifications, keys[j]))
                             <= Len(VotesFor(verifications, keys[i]))
                    /\ \A j \in 1..(i - 1) :
                          Len(VotesFor(verifications, keys[j]))
                             < Len(VotesFor(verifications, keys[i]))
    IN  keys[first]

\* "if vote_percentage > 0.5" (245)
is_majority(match_count, total_frames) == 2 * match_count > total_frames

\* _vote_across_frames(tracking_id, verifications) (187-268)
vote_across_frames(verifications) ==
    IF MatchResults(verifications) = <<>>
    THEN RecognitionResult(NoPerson, <<0, 1>>, 0, Len(verifications), "NO_MATCH")
    ELSE LET best == best_person_id(verifications)
             best_results == VotesFor(verifications, best)
             match_count == Len(best_results)
             avg_similarity ==
                 <<SumSeq([i \in 1..match_count |-> best_results[i].similarity[1]]),
                   match_count>>
         IN  RecognitionResult(best, avg_similarity, match_count, Len(verifications),
                               IF is_majority(match_count, Len(verifications))
                               THEN "MATCH" ELSE "NO_MATCH")

\* "intervals" (165-174): the absolute differences of the timestamps of
\* neighbouring recent verifications
intervals(recent) ==
    [i \in 1..(Len(recent) - 1) |->
        LET interval == recent[i].timestamp - recent[i + 1].timestamp
        IN  IF interval < 0 THEN -interval ELSE interval]

\* "avg_interval < self.verification_interval * 0.5" (176-177), when at
\* least two verifications are recent; the code logs "frames_too_close" and
\* goes on to the vote.
frames_too_close(recent) ==
    /\ Len(recent) >= 2
    /\ 2 * SumSeq(intervals(recent)) < VERIFICATION_INTERVAL * Len(intervals(recent))

\* verify_identity(tracking_id) called at time now (109-185), for
\* self.verification_history = histories
verify_identity_in(histories, tracking_id, now) ==
    IF tracking_id \notin DOMAIN histories
    THEN NoResult
    ELSE LET history == histories[tracking_id]
             recent == recent_verifications(history, now, <<>>)
         IN  IF Len(history) < VERIFICATION_FRAMES
             THEN NoResult
             ELSE IF Len(recent) < VERIFICATION_FRAMES
             THEN NoResult
             ELSE vote_across_frames(recent)

\* The verifications of all tracks in one list, track by track.
RECURSIVE pooled_history(_)
pooled_history(tracks) ==
    IF tracks = {}
    THEN <<>>
    ELSE LET t == CHOOSE u \in tracks : \A v \in tracks : TrackRank(u) <= TrackRank(v)
         IN  verification_history[t] \o pooled_history(tracks \ {t})

\* A verify_identity that votes over the verifications of every track.
verify_identity_pooled(tracking_id, now) ==
    verify_identity_in([t \in DOMAIN verification_history |->
                           pooled_history(DOMAIN verification_history)],
                       tracking_id, now)

\* verify_identity(tracking_id) called at time now (109-185)
verify_identity(tracking_id, now) ==
    verify_identity_in(verification_history, tracking_id, now)

\* A caller verifies a track.
VerifyIdentity ==
    /\ \E tracking_id \in TrackIds, now \in Nows :
         /\ verify_result' = verify_identity(tracking_id, now)
         /\ verify_now' = now
         /\ verify_track' = tracking_id
    /\ UNCHANGED <<verification_history, evicted>>
    /\ UNCHANGED <<captureVars, callerVars, readerVars, source_up, redisVars,
                   procVars, syncVars, matcherVars, serviceVars>>
    /\ UNCHANGED detectorVars
    /\ UNCHANGED concurrencyVars

NextVerifier ==
    \/ AddVerification
    \/ VerifyIdentity

\* The verifier with tracks that live longer than their deques.
NextHistory == AddToHistory

\* The number of verifications the verifier holds.
TotalObservations ==
    LET RECURSIVE total(_)
        total(tracks) ==
            IF tracks = {}
            THEN 0
            ELSE LET t == CHOOSE u \in tracks : TRUE
                 IN  Len(verification_history[t]) + total(tracks \ {t})
    IN  total(DOMAIN verification_history)

\* A caller records frames of two tracks that show different persons.
AddToTrack ==
    \E tracking_id \in HistoryTracks, timestamp \in HistoryTimestamps,
       person_id \in PersonIds :
        /\ TotalObservations < MaxObservations
        /\ add_verification(tracking_id,
                            RecognitionResult(person_id, <<40, 1>>, 1, 1, "MATCH"),
                            timestamp)

\* A caller verifies one of the tracks.
VerifyTrack ==
    /\ \E tracking_id \in HistoryTracks, now \in Nows :
         /\ verify_result' = verify_identity(tracking_id, now)
         /\ verify_now' = now
         /\ verify_track' = tracking_id
    /\ UNCHANGED <<verification_history, evicted>>
    /\ UNCHANGED <<captureVars, callerVars, readerVars, source_up, redisVars,
                   procVars, syncVars, matcherVars, serviceVars>>
    /\ UNCHANGED detectorVars
    /\ UNCHANGED concurrencyVars

\* The verifier with two tracks.
NextTracks ==
    \/ AddToTrack
    \/ VerifyTrack

InitReaper == clock = 0

\* The number of verifications in the verifier's state.
ReaperObservations ==
    Len(HistoryOf("T1")) + Len(HistoryOf("T2"))

\* cleanup_old_history() called at time now (270-292): a track is removed
\* when its history is empty or its last verification is older than
\* history_ttl; the other tracks keep their deques.
cleanup_old_history(now) ==
    LET tracking_ids_to_remove ==
            {t \in DOMAIN verification_history :
                \/ verification_history[t] = <<>>
                \/ now - verification_history[t][Len(verification_history[t])].timestamp
                      > history_ttl}
    IN  [t \in DOMAIN verification_history \ tracking_ids_to_remove |->
            verification_history[t]]

\* A caller records the result of a frame with the default timestamp,
\* datetime.now() (88-89).
RecordNow ==
    \E tracking_id \in HistoryTracks :
        /\ ReaperObservations < MaxObservations
        /\ add_verification(tracking_id,
                            RecognitionResult("E1", <<40, 1>>, 1, 1, "MATCH"),
                            clock)

\* A caller invokes the reaper.  The service itself has no such caller: no
\* timer and no line of processing_loop or process_face calls it (the
\* verifier lines of main.py 362-365 are comments).
CleanupOldHistory ==
    /\ verification_history' = cleanup_old_history(clock)
    /\ evicted' = <<>>
    /\ UNCHANGED <<verify_result, verify_now, verify_track>>
    /\ UNCHANGED <<captureVars, callerVars, readerVars, source_up, redisVars,
                   procVars, syncVars, matcherVars, serviceVars>>
    /\ UNCHANGED <<detectorVars, overlapVars, previousVars, reaperVars>>

\* Time passes.
Tick ==
    /\ clock < MaxClock
    /\ clock' = clock + ClockStep
    /\ UNCHANGED <<captureVars, callerVars, readerVars, source_up, redisVars,
                   procVars, syncVars, matcherVars, verifierVars, serviceVars>>
    /\ UNCHANGED <<detectorVars, overlapVars, previousVars>>

\* The verifier with its reaper and the clock.
NextReaper ==
    \/ RecordNow
    \/ CleanupOldHistory
    \/ Tick

(***************************************************************************)
(* The service: lifespan, processing_loop and /ready (main.py)             *)
(*                                                                         *)
(* Everything here runs on one asyncio event loop: a coroutine runs until  *)
(* it is suspended in an await, and shutdown_event or an endpoint runs     *)
(* only while the processing task is suspended.  The positions of the task *)
(* are its awaits, and "faces" while it runs between two faces.            *)
(***************************************************************************)

\* ServiceState.__init__ (102-121)
InitService ==
    /\ lifespan = "init"
    /\ state_running = FALSE
    /\ processing_task = "none"
    /\ must_cancel = FALSE
    /\ rtsp_stream = "none"
    /\ redis_client = "none"
    /\ broadcasts = {}
    /\ face_error = FALSE
    /\ frame_error = FALSE
    /\ at_shutdown = [frame_counter |-> 0, processing_task |-> "none"]
    /\ ready_result = "none"
    /\ ready_seen = <<>>

\* The registered persons a collaborator can load: nobody, one inactive
\* embedding, one active embedding below the similarity threshold, and one
\* and two active embeddings above it.
Enrollments ==
    { <<>>,
      <<RegisteredEmbedding("E1", FALSE, SIMILARITY_THRESHOLD + 5)>>,
      <<RegisteredEmbedding("E1", TRUE, SIMILARITY_THRESHOLD - 5)>>,
      <<RegisteredEmbedding("E1", TRUE, SIMILARITY_THRESHOLD + 5)>>,
      <<RegisteredEmbedding("E1", TRUE, SIMILARITY_THRESHOLD + 5),
        RegisteredEmbedding("E2", TRUE, SIMILARITY_THRESHOLD - 5)>> }

\* The awaits of the processing task: the task is suspended there.
Suspended ==
    {"created", "loop_sleep", "no_frame_sleep", "count", "face", "broadcast",
     "error_sleep"}

\* asyncio.Task.done()
task_done_unawaited == TRUE

task_done == processing_task \in {"none", "ended", "cancelled"}

\* RedisClient.health_check (redis_client.py 381-387): ping answers
health_check == primary_ok

\* startup_event (162-199) as lifespan calls it (132-146).  connect() raises
\* when Redis does not answer (redis_client.py 67-69); a model that fails to load raises after
\* the stream was started.  The task is created suspended.
Startup ==
    /\ lifespan = "init"
    /\ IF ~health_check
       THEN /\ redis_client' = "unconnected"
            /\ lifespan' = "failed"
            /\ UNCHANGED <<rtsp_stream, state_running, processing_task,
                           registered_embeddings>>
       ELSE /\ redis_client' = "connected"
            /\ rtsp_stream' = "started"
            /\ \E models_loaded \in BOOLEAN :
                 IF models_loaded
                 THEN /\ registered_embeddings' = <<>>
                      /\ state_running' = TRUE
                      /\ processing_task' = "created"
                      /\ lifespan' = "up"
                 ELSE /\ lifespan' = "failed"
                      /\ UNCHANGED <<state_running, processing_task,
                                     registered_embeddings>>
    /\ UNCHANGED <<must_cancel, broadcasts, face_error, frame_error,
                   at_shutdown, ready_result, ready_seen, rec_result>>
    /\ UNCHANGED <<captureVars, callerVars, readerVars, source_up, redisVars,
                   procVars, syncVars, verifierVars>>
    /\ UNCHANGED detectorVars
    /\ UNCHANGED concurrencyVars

\* The enrollment collaborator replaces state.registered_persons.
LoadPersons ==
    /\ lifespan = "up"
    /\ processing_task \in Suspended
    /\ \E persons \in Enrollments :
         /\ persons # registered_embeddings
         /\ registered_embeddings' = persons
    /\ UNCHANGED <<rec_result, serviceVars>>
    /\ UNCHANGED <<captureVars, callerVars, readerVars, source_up, redisVars,
                   procVars, syncVars, verifierVars>>
    /\ UNCHANGED detectorVars
    /\ UNCHANGED concurrencyVars

\* The capture thread gains or loses the camera: rtsp_stream.connected.
CaptureFlip ==
    /\ rtsp_stream = "started"
    /\ connected' = ~connected
    /\ UNCHANGED <<running, cap, frame, frame_count, error_count, retry_count,
                   retry_delay, capture_thread, thread_pc, sleep_left, thread_event,
                   after_backoff, escalation_log>>
    /\ UNCHANGED <<callerVars, readerVars, source_up, redisVars, procVars, syncVars,
                   matcherVars, verifierVars, serviceVars>>
    /\ UNCHANGED detectorVars
    /\ UNCHANGED concurrencyVars

\* "while state.running" (245): where the task is after the test
loop_top == IF state_running THEN "loop_sleep" ELSE "ended"

\* The task runs for the first time.
TaskStart ==
    /\ processing_task = "created"
    /\ ~must_cancel
    /\ processing_task' = loop_top
    /\ UNCHANGED <<lifespan, state_running, must_cancel, rtsp_stream, redis_client,
                   broadcasts, face_error, frame_error, at_shutdown,
                   ready_result, ready_seen>>
    /\ UNCHANGED <<captureVars, callerVars, readerVars, source_up, redisVars,
                   procVars, syncVars, matcherVars, verifierVars>>
    /\ UNCHANGED detectorVars
    /\ UNCHANGED concurrencyVars

\* A counter that advances only for a frame the slot did not hold at the
\* turn before.
next_frame_counter_for_new_frame ==
    IF pub_since_rd THEN frame_counter + 1 ELSE frame_counter

\* "state.frame_counter += 1" (258)
next_frame_counter == frame_counter + 1

\* One turn of processing_loop from the end of sleep(0.001) (247-262) into
\* process_frame (281-293): without a frame it sleeps 0.1 s; with one it
\* counts it and detects persons, which may raise into the except branch of
\* 268-270; else it is suspended in publish_person_count.
loop_turn(got_frame, detect_raises) ==
    /\ IF ~got_frame
       THEN /\ ~detect_raises
            /\ processing_task' = "no_frame_sleep"
            /\ UNCHANGED <<frame_counter, frame_error, face_error, faces_left>>
       ELSE /\ frame_counter < MaxTicks
            /\ frame_counter' = next_frame_counter
            /\ face_error' = FALSE
            /\ faces_left' = 0
            /\ IF detect_raises
               THEN /\ processing_task' = "error_sleep"
                    /\ frame_error' = TRUE
               ELSE /\ processing_task' = "count"
                    /\ UNCHANGED frame_error
    /\ UNCHANGED <<lifespan, state_running, must_cancel, rtsp_stream, redis_client,
                   broadcasts, at_shutdown, ready_result, ready_seen>>
    /\ UNCHANGED <<enrolled, person_counts, n_events, rejected, call_log>>

\* The turn with whatever read_frame returns.
LoopTurn ==
    /\ processing_task = "loop_sleep"
    /\ ~must_cancel
    /\ \E got_frame \in BOOLEAN, detect_raises \in BOOLEAN :
         loop_turn(got_frame, detect_raises)
    /\ UNCHANGED <<captureVars, callerVars, readerVars, source_up, redisVars,
                   syncVars, matcherVars, verifierVars>>
    /\ UNCHANGED detectorVars
    /\ UNCHANGED concurrencyVars

\* The capture thread writes a frame into the slot (rtsp_stream.py 179-182).
\* During an outage it writes nothing, and nothing ever clears the slot.
SlotPublish ==
    /\ rtsp_stream = "started"
    /\ frame_count < MaxFrames
    /\ \E px \in 1..NumPixels : frame' = published_frame(px)
    /\ frame_count' = next_frame_count
    /\ pub_since_rd' = TRUE
    /\ UNCHANGED <<running, connected, cap, error_count, retry_count, retry_delay,
                   capture_thread, thread_pc, sleep_left, thread_event,
                   after_backoff, escalation_log>>
    /\ UNCHANGED <<rd_seq, rd_ok, rd_frame, rd_repeat>>
    /\ UNCHANGED <<callerVars, source_up, redisVars, procVars, syncVars,
                   matcherVars, verifierVars, serviceVars>>
    /\ UNCHANGED detectorVars
    /\ UNCHANGED concurrencyVars

\* The turn with the slot as the capture thread left it: read_frame (250)
\* returns the frame of the slot, new or not.
LoopTurnRead ==
    /\ processing_task = "loop_sleep"
    /\ ~must_cancel
    /\ \E detect_raises \in BOOLEAN : loop_turn(read_frame[1], detect_raises)
    /\ rd_ok' = read_frame[1]
    /\ rd_frame' = read_frame[2]
    /\ rd_seq' = IF rd_seq = 1 THEN 2 ELSE 1
    /\ pub_since_rd' = FALSE
    /\ rd_repeat' = (rd_seq # 0 /\ ~pub_since_rd)
    /\ UNCHANGED <<captureVars, callerVars, source_up, redisVars,
                   syncVars, matcherVars, verifierVars>>
    /\ UNCHANGED detectorVars
    /\ UNCHANGED concurrencyVars

\* "await asyncio.sleep(0.1)" and "continue" (254-255), and
\* "await asyncio.sleep(1.0)" of the except branch (268-270)
SleepOver ==
    /\ processing_task \in {"no_frame_sleep", "error_sleep"}
    /\ ~must_cancel
    /\ processing_task' = loop_top
    /\ UNCHANGED <<lifespan, state_running, must_cancel, rtsp_stream, redis_client,
                   broadcasts, face_error, frame_error, at_shutdown,
                   ready_result, ready_seen>>
    /\ UNCHANGED <<captureVars, callerVars, readerVars, source_up, redisVars,
                   procVars, syncVars, matcherVars, verifierVars>>
    /\ UNCHANGED detectorVars
    /\ UNCHANGED concurrencyVars

\* Where process_frame goes on after a face (311-312): the next face, or back
\* to the loop.
after_face(left) == IF left = 0 THEN loop_top ELSE "faces"

\* publish_person_count has returned (286-293); process_frame goes on to the
\* face pipeline (295-312) when the frame is due: detect_faces may raise, and
\* finds the faces of the frame.
CountPublished ==
    /\ processing_task = "count"
    /\ ~must_cancel
    /\ person_counts' = IF primary_ok
                        THEN XAdd(person_counts, count_frame_number(frame_counter),
                                  PRIMARY_MAXLEN)
                        ELSE person_counts
    /\ \E detect_raises \in BOOLEAN, faces \in 0..MaxFaces :
         IF ~runs_face_pipeline(frame_counter)
         THEN /\ ~detect_raises
              /\ faces = 0
              /\ call_log' = call_log \o process_frame_calls(frame_counter)
              /\ processing_task' = loop_top
              /\ UNCHANGED <<faces_left, frame_error>>
         ELSE IF detect_raises
         THEN /\ faces = 0
              /\ call_log' = Append(call_log,
                                    Call("count", count_frame_number(frame_counter),
                                         primary_ok, 0))
              /\ processing_task' = "error_sleep"
              /\ frame_error' = TRUE
              /\ UNCHANGED faces_left
         ELSE /\ call_log' = call_log \o process_frame_calls(frame_counter)
              /\ faces_left' = faces
              /\ processing_task' = after_face(faces)
              /\ UNCHANGED frame_error
    /\ UNCHANGED <<lifespan, state_running, must_cancel, rtsp_stream, redis_client,
                   broadcasts, face_error, at_shutdown, ready_result,
                   ready_seen>>
    /\ UNCHANGED <<frame_counter, enrolled, n_events, rejected>>
    /\ UNCHANGED <<captureVars, callerVars, readerVars, source_up, redisVars,
                   syncVars, matcherVars, verifierVars>>
    /\ UNCHANGED detectorVars
    /\ UNCHANGED concurrencyVars

\* Where the task is after process_face raised inside for a face, with
\* "left" faces of the frame after it: without the try of 324 the exception
\* would reach processing_loop.
after_face_error_unhandled(left) == "error_sleep"

\* "except Exception as e: logger.error("face_processing_error", ...)"
\* (398-399): process_face returns, process_frame goes on.
after_face_error(left) == after_face(left)

\* The decision process_face comes to for a face whose embedding was
\* extracted (336-345): none without registered persons, else recognize_face's.
face_decision ==
    IF Len(registered_embeddings) = 0
    THEN "SKIP"
    ELSE recognize_face(registered_embeddings).decision

\* "if result.decision == "MATCH"" (368)
publishes_face_event_always(decision) == decision # "SKIP"

publishes_face_event(decision) == decision = "MATCH"

\* process_face for the next face of the frame (315-399) up to its first
\* await: cropping or the embedding may raise, the embedding may be missing
\* (332-334); a face that is not published is finished at once.
ProcessFaceBegin ==
    /\ processing_task = "faces"
    /\ faces_left > 0
    /\ \E outcome \in {"RAISES", "NO_EMBEDDING", "RECOGNIZED"} :
         IF outcome = "RAISES"
         THEN /\ face_error' = TRUE
              /\ faces_left' = faces_left - 1
              /\ processing_task' = after_face_error(faces_left - 1)
              /\ frame_error' = (frame_error
                                   \/ after_face_error(faces_left - 1) = "error_sleep")
         ELSE IF outcome = "RECOGNIZED" /\ publishes_face_event(face_decision)
         THEN /\ n_events < MaxEvents
              /\ processing_task' = "face"
              /\ UNCHANGED <<faces_left, face_error, frame_error>>
         ELSE /\ faces_left' = faces_left - 1
              /\ processing_task' = after_face(faces_left - 1)
              /\ UNCHANGED <<face_error, frame_error>>
    /\ UNCHANGED <<lifespan, state_running, must_cancel, rtsp_stream, redis_client,
                   broadcasts, at_shutdown, ready_result, ready_seen>>
    /\ UNCHANGED <<frame_counter, enrolled, person_counts, n_events, rejected,
                   call_log>>
    /\ UNCHANGED <<captureVars, callerVars, readerVars, source_up, redisVars,
                   syncVars, matcherVars, verifierVars>>
    /\ UNCHANGED detectorVars
    /\ UNCHANGED concurrencyVars

\* The event_data of the face being published (373-383)
face_event == [frame_number |-> frame_counter, timestamp |-> n_events + 1]

\* publish_face_event has returned (387); the task is suspended in
\* publish_face_detection (390).
FacePublished ==
    /\ processing_task = "face"
    /\ ~must_cancel
    /\ primary' = primary_after_publish(face_event)
    /\ call_log' = Append(call_log,
                          Call("face", face_event.frame_number, primary_ok, faces_left))
    /\ processing_task' = "broadcast"
    /\ UNCHANGED <<lifespan, state_running, must_cancel, rtsp_stream, redis_client,
                   broadcasts, face_error, frame_error, at_shutdown,
                   ready_result, ready_seen>>
    /\ UNCHANGED <<frame_counter, enrolled, person_counts, faces_left, n_events,
                   rejected>>
    /\ UNCHANGED <<buffer, next_id, alerts, primary_ok, buffer_ok>>
    /\ UNCHANGED <<captureVars, callerVars, readerVars, source_up, syncVars,
                   matcherVars, verifierVars>>
    /\ UNCHANGED detectorVars
    /\ UNCHANGED concurrencyVars

\* A publish_face_detection without its try: the failed publish would raise
\* into process_face.
publish_face_detection_raises_on_failure == ~primary_ok

\* publish_face_detection (redis_client.py 292-314): "except Exception" (313-314)
\* logs a failed publish and returns.
publish_face_detection_raises == FALSE

\* publish_face_detection has returned (390; redis_client.py 292-314): the face is finished.
\* The publish fails while Redis does not answer.  Had it raised, the except
\* of 392-396 would write the event to the buffer.
FaceBroadcast ==
    /\ processing_task = "broadcast"
    /\ ~must_cancel
    /\ broadcasts' = IF primary_ok
                     THEN broadcasts \cup {face_event.timestamp}
                     ELSE broadcasts
    /\ IF publish_face_detection_raises
       THEN /\ buffer' = buffer_after_publish(face_event)
            /\ next_id' = IF buffer_ok THEN next_id + 1 ELSE next_id
       ELSE UNCHANGED <<buffer, next_id>>
    /\ n_events' = n_events + 1
    /\ faces_left' = faces_left - 1
    /\ processing_task' = after_face(faces_left - 1)
    /\ UNCHANGED <<lifespan, state_running, must_cancel, rtsp_stream, redis_client,
                   face_error, frame_error, at_shutdown, ready_result,
                   ready_seen>>
    /\ UNCHANGED <<frame_counter, enrolled, person_counts, rejected, call_log>>
    /\ UNCHANGED <<primary, alerts, primary_ok, buffer_ok>>
    /\ UNCHANGED <<captureVars, callerVars, readerVars, source_up,
                   syncVars, matcherVars, verifierVars>>
    /\ UNCHANGED detectorVars
    /\ UNCHANGED concurrencyVars

\* The CancelledError of cancel() is raised in the task at the await it is
\* suspended in.  CancelledError is no Exception, so no "except Exception"
\* of redis_client.py or main.py catches it and the task ends there; the
\* write the task was waiting for may have reached Redis or not.
TaskCancelled ==
    /\ must_cancel
    /\ processing_task \in Suspended
    /\ must_cancel' = FALSE
    /\ processing_task' = "cancelled"
    /\ \E landed \in BOOLEAN :
         /\ person_counts' =
               IF processing_task = "count" /\ landed /\ primary_ok
               THEN XAdd(person_counts, count_frame_number(frame_counter),
                         PRIMARY_MAXLEN)
               ELSE person_counts
         /\ primary' =
               IF processing_task = "face" /\ landed
               THEN primary_after_publish(face_event)
               ELSE primary
         /\ broadcasts' =
               IF processing_task = "broadcast" /\ landed /\ primary_ok
               THEN broadcasts \cup {face_event.timestamp}
               ELSE broadcasts
         /\ landed => processing_task \in {"count", "face", "broadcast"}
    /\ UNCHANGED <<lifespan, state_running, rtsp_stream, redis_client, face_error,
                   frame_error, at_shutdown, ready_result, ready_seen>>
    /\ UNCHANGED <<frame_counter, enrolled, faces_left, n_events, rejected, call_log>>
    /\ UNCHANGED <<buffer, next_id, alerts, primary_ok, buffer_ok>>
    /\ UNCHANGED <<captureVars, callerVars, readerVars, source_up, syncVars,
                   matcherVars, verifierVars>>
    /\ UNCHANGED detectorVars
    /\ UNCHANGED concurrencyVars

\* shutdown_event up to "await state.processing_task" (203-215), run by the
\* finally of lifespan (143-145) while the task, if there is one, is
\* suspended: running = False, cancel(), and the wait for the task.
ShutdownBegin ==
    /\ lifespan \in {"up", "failed"}
    /\ processing_task \in Suspended \cup {"none"}
    /\ state_running' = FALSE
    /\ must_cancel' = (processing_task # "none")
    /\ at_shutdown' = [frame_counter |-> frame_counter,
                       processing_task |-> processing_task]
    /\ lifespan' = "await_task"
    /\ UNCHANGED <<processing_task, rtsp_stream, redis_client, broadcasts,
                   face_error, frame_error, ready_result, ready_seen>>
    /\ UNCHANGED <<captureVars, callerVars, readerVars, source_up, redisVars,
                   procVars, syncVars, matcherVars, verifierVars>>
    /\ UNCHANGED detectorVars
    /\ UNCHANGED concurrencyVars

\* shutdown_event once the task is done (217-219): rtsp_stream.stop()
ShutdownStopStream ==
    /\ lifespan = "await_task"
    /\ task_done
    /\ rtsp_stream' = IF rtsp_stream = "none" THEN "none" ELSE "stopped"
    /\ lifespan' = "disconnect"
    /\ UNCHANGED <<state_running, processing_task, must_cancel, redis_client,
                   broadcasts, face_error, frame_error, at_shutdown,
                   ready_result, ready_seen>>
    /\ UNCHANGED <<captureVars, callerVars, readerVars, source_up, redisVars,
                   procVars, syncVars, matcherVars, verifierVars>>
    /\ UNCHANGED detectorVars
    /\ UNCHANGED concurrencyVars

\* shutdown_event, "await state.redis_client.disconnect()" (221-223; redis_client.py 71-75)
ShutdownDisconnect ==
    /\ lifespan = "disconnect"
    /\ redis_client' = IF redis_client = "connected" THEN "closed" ELSE redis_client
    /\ lifespan' = "complete"
    /\ UNCHANGED <<state_running, processing_task, must_cancel, rtsp_stream,
                   broadcasts, face_error, frame_error, at_shutdown,
                   ready_result, ready_seen>>
    /\ UNCHANGED <<captureVars, callerVars, readerVars, source_up, redisVars,
                   procVars, syncVars, matcherVars, verifierVars>>
    /\ UNCHANGED detectorVars
    /\ UNCHANGED concurrencyVars

\* readiness_check (422-435)
ready ==
    /\ state_running
    /\ rtsp_stream # "none"
    /\ connected
    /\ redis_client # "none"

\* A probe calls GET /ready while the application serves requests.
ReadinessCheck ==
    /\ lifespan \in {"up", "await_task"}
    /\ processing_task \in Suspended \cup {"none", "ended", "cancelled"}
    /\ ready_result' = IF ready THEN "ready" ELSE "not_ready"
    /\ ready_seen' = <<state_running, rtsp_stream # "none" /\ connected, health_check>>
    /\ UNCHANGED <<lifespan, state_running, processing_task, must_cancel, rtsp_stream,
                   redis_client, broadcasts, face_error, frame_error,
                   at_shutdown>>
    /\ UNCHANGED <<captureVars, callerVars, readerVars, source_up, redisVars,
                   procVars, syncVars, matcherVars, verifierVars>>
    /\ UNCHANGED detectorVars
    /\ UNCHANGED concurrencyVars

\* The processing task.
NextTask ==
    \/ TaskStart
    \/ LoopTurn
    \/ SleepOver
    \/ CountPublished
    \/ ProcessFaceBegin
    \/ FacePublished
    \/ FaceBroadcast
    \/ TaskCancelled

\* The processing loop reading the slot the capture thread fills, while
\* Redis comes and goes.
NextTicks ==
    \/ Startup
    \/ TaskStart
    \/ SlotPublish
    \/ LoopTurnRead
    \/ SleepOver
    \/ CountPublished
    \/ ProcessFaceBegin
    \/ PrimaryFlip

\* The verifier of the running service: the processing loop turns, time
\* passes, observations are recorded, and a caller may invoke the reaper.
NextReaperService ==
    \/ NextReaper
    \/ Startup
    \/ TaskStart
    \/ LoopTurn
    \/ SleepOver
    \/ CountPublished
    \/ ProcessFaceBegin

\* The processing task is scheduled.
FairTask ==
    /\ WF_vars(Startup)
    /\ WF_vars(TaskStart)
    /\ WF_vars(LoopTurn)
    /\ WF_vars(SleepOver)
    /\ WF_vars(CountPublished)
    /\ WF_vars(ProcessFaceBegin)

\* The running service while Redis comes and goes.
NextBroadcast ==
    \/ Startup
    \/ LoadPersons
    \/ TaskStart
    \/ LoopTurn
    \/ SleepOver
    \/ CountPublished
    \/ ProcessFaceBegin
    \/ FacePublished
    \/ FaceBroadcast
    \/ PrimaryFlip

\* The service from startup to shutdown, with the persons a collaborator loads.
NextService ==
    \/ Startup
    \/ LoadPersons
    \/ NextTask
    \/ ShutdownBegin
    \/ ShutdownStopStream
    \/ ShutdownDisconnect

\* The service with its readiness probe, the camera and Redis coming and going.
NextReadiness ==
    \/ Startup
    \/ TaskStart
    \/ TaskCancelled
    \/ PrimaryFlip
    \/ CaptureFlip
    \/ ReadinessCheck
    \/ ShutdownBegin
    \/ ShutdownStopStream
    \/ ShutdownDisconnect

(***************************************************************************)
(* FacePersonDetector.detect_faces (detector.py)                           *)
(***************************************************************************)

\* The boxes (x1, y1, x2, y2) the face model can return: widths and heights
\* one below, at and one above MIN_FACE_SIZE, at two places of the frame.
Boxes ==
    {<<x1, 0, x1 + w, h>> :
        x1 \in {0, 100},
        w \in (MIN_FACE_SIZE - 1)..(MIN_FACE_SIZE + 1),
        h \in (MIN_FACE_SIZE - 1)..(MIN_FACE_SIZE + 1)}

\* Detection (20-38) with its properties width and height (40-48)
Detection(bbox) ==
    [bbox |-> bbox, width |-> bbox[3] - bbox[1], height |-> bbox[4] - bbox[2]]

InitDetector ==
    /\ face_boxes = <<>>
    /\ face_detections = <<>>

is_valid_face_size_strict(detection, min_size) ==
    detection.width > min_size /\ detection.height > min_size

\* Detection.is_valid_face_size (61-71)
is_valid_face_size(detection, min_size) ==
    detection.width >= min_size /\ detection.height >= min_size

\* detect_faces is called for a frame (165-190): "detections = []"
DetectFacesBegin ==
    /\ face_boxes # <<>>
    /\ face_boxes' = <<>>
    /\ face_detections' = <<>>
    /\ UNCHANGED <<captureVars, callerVars, readerVars, source_up, redisVars,
                   procVars, syncVars, matcherVars, verifierVars, serviceVars>>
    /\ UNCHANGED concurrencyVars

\* One turn of its loop over the boxes of the model (191-213), with
\* min_face_size from settings: a box that passes the size filter is
\* appended to the detections.
DetectFacesBox ==
    /\ Len(face_boxes) < MaxBoxes
    /\ \E box \in Boxes :
          /\ face_boxes' = Append(face_boxes, box)
          /\ face_detections' =
                IF is_valid_face_size(Detection(box), MIN_FACE_SIZE)
                THEN Append(face_detections, Detection(box))
                ELSE face_detections
    /\ UNCHANGED <<captureVars, callerVars, readerVars, source_up, redisVars,
                   procVars, syncVars, matcherVars, verifierVars, serviceVars>>
    /\ UNCHANGED concurrencyVars

NextDetector ==
    \/ DetectFacesBegin
    \/ DetectFacesBox

Init ==
    /\ InitCapture
    /\ InitPublisher
    /\ InitMatcher
    /\ InitVerifier
    /\ InitService
    /\ InitDetector
    /\ InitOverlap
    /\ InitPrevious
    /\ InitReaper

Next == NextCapture \/ ReadFrame \/ NextScheduler \/ NextPublisher \/ NextMatcher
        \/ NextVerifier \/ NextHistory \/ NextService \/ NextReadiness
        \/ NextDetector \/ NextOverlap \/ NextOrder
        \/ NextRestart \/ NextReaper \/ NextBroadcast \/ NextTicks
        \/ NextTracks

Spec == Init /\ [][Next]_vars

SpecPublisher == Init /\ [][NextPublisher]_vars

SpecScheduler == Init /\ [][NextScheduler]_vars

SpecMatcher == Init /\ [][NextMatcher]_vars

SpecVerifier == Init /\ [][NextVerifier]_vars

SpecHistory == Init /\ [][NextHistory]_vars

SpecReaper == Init /\ [][NextReaper]_vars

SpecTracks == Init /\ [][NextTracks]_vars

\* The service runs and time passes.  Nothing in the service schedules
\* cleanup_old_history, so no fairness is assumed for it.
SpecReaperLive ==
    Init /\ [][NextReaperService]_vars /\ WF_vars(Tick) /\ FairTask

SpecService == Init /\ [][NextService]_vars

SpecReadiness == Init /\ [][NextReadiness]_vars

SpecBroadcast == Init /\ [][NextBroadcast]_vars

SpecTicks == Init /\ [][NextTicks]_vars

SpecDetector == Init /\ [][NextDetector]_vars

SpecOverlap == Init /\ [][NextOverlap]_vars

SpecOrder == Init /\ [][NextOrder]_vars

SpecCapture == Init /\ [][NextCapture]_vars

SpecRestart == Init /\ [][NextRestart]_vars

SpecReader == Init /\ [][NextReader]_vars

\* The capture thread is scheduled, sleeps and joins end, and the clock runs.
FairCapture ==
    /\ WF_vars(LoopCheck)
    /\ WF_vars(ConnectOpen)
    /\ WF_vars(ConnectRead)
    /\ WF_vars(ReadEnd)
    /\ WF_vars(Wake)
    /\ WF_vars(Elapse)
    /\ WF_vars(StopEnd)

SpecCaptureLive == SpecCapture /\ FairCapture

(***************************************************************************)
(* Claims about RedisClient and the face path                              *)
(***************************************************************************)

\* The events of a stream of buffer entries, in stream order.
DataOf(entries) == [i \in 1..Len(entries) |-> entries[i].data]

\* The entries of the drain's snapshot that are no longer in the buffer.
MovedByDrain ==
    {i \in 1..Len(sync_snapshot) :
        \A j \in 1..Len(buffer) : buffer[j].id # sync_snapshot[i].id}

\* C1: a MATCH that process_face handles while the primary log rejects
\* writes and the buffer log is writable is in the buffer log afterwards
\* (or, once drained, in the primary log).
C1_BufferFallback ==
    \A ts \in rejected :
        \/ \E i \in 1..Len(buffer) : buffer[i].data.timestamp = ts
        \/ \E i \in 1..Len(primary) : primary[i].timestamp = ts

C3_DrainCount ==
    sync_pc = "returned" => sync_result = Cardinality(MovedByDrain)

\* C29: a drain deletes an entry from the buffer only after the primary log
\* has taken its copy: whatever entry leaves the buffer in a step is in the
\* primary log after that step, and in every state of a drain, aborted or
\* not, every event the drain found in the buffer is in the buffer or in
\* the primary log.
C29_NoEventLost ==
    /\ [][\A i \in 1..Len(buffer) :
             (\A j \in 1..Len(buffer') : buffer'[j] # buffer[i])
                => \E k \in 1..Len(primary') : primary'[k] = buffer[i].data]_vars
    /\ [](\A i \in 1..Len(sync_snapshot) :
             \/ \E j \in 1..Len(buffer) : buffer[j] = sync_snapshot[i]
             \/ \E k \in 1..Len(primary) : primary[k] = sync_snapshot[i].data)

\* A drain over two buffered events was aborted by an outage after it had
\* moved the first one.
C29_Witness ==
    /\ sync_pc = "returned"
    /\ sync_result = 0
    /\ Len(sync_snapshot) = 2
    /\ synced = 1
    /\ Len(buffer) = 1
    /\ buffer[1] = sync_snapshot[2]
    /\ primary = <<sync_snapshot[1].data>>

\* C30: whatever drains ran, aborted or not, no buffered event is in the
\* primary log more than once.
C30_NoDuplicateInPrimary ==
    \A i, j \in 1..Len(primary) : primary[i] = primary[j] => i = j

(***************************************************************************)
(* Claims about recognize_face                                             *)
(***************************************************************************)

\* The positions of the active registered embeddings of a person.
ActiveOf(p) ==
    {i \in 1..Len(registered_embeddings) :
        /\ registered_embeddings[i].is_active
        /\ registered_embeddings[i].person_id = p}

ActivePersons == {p \in PersonIds : ActiveOf(p) # {}}

\* How many of a person's active embeddings are strictly above the threshold.
AgreeCount(p) ==
    Cardinality({i \in ActiveOf(p) :
                    registered_embeddings[i].similarity > SIMILARITY_THRESHOLD})

RECURSIVE SumOver(_)
SumOver(S) ==
    IF S = {} THEN 0
    ELSE LET i == CHOOSE j \in S : TRUE
         IN  registered_embeddings[i].similarity + SumOver(S \ {i})

\* ratio_p > ratio_q, ratio_p = ratio_q, mean_p > mean_q, mean_p = mean_q
RatioGreater(p, q) ==
    AgreeCount(p) * Cardinality(ActiveOf(q)) > AgreeCount(q) * Cardinality(ActiveOf(p))

RatioEqual(p, q) ==
    AgreeCount(p) * Cardinality(ActiveOf(q)) = AgreeCount(q) * Cardinality(ActiveOf(p))

MeanGreater(p, q) ==
    SumOver(ActiveOf(p)) * Cardinality(ActiveOf(q))
        > SumOver(ActiveOf(q)) * Cardinality(ActiveOf(p))

MeanEqual(p, q) ==
    SumOver(ActiveOf(p)) * Cardinality(ActiveOf(q))
        = SumOver(ActiveOf(q)) * Cardinality(ActiveOf(p))

\* The position at which a person was first enrolled.
FirstOf(p) == CHOOSE i \in ActiveOf(p) : \A j \in ActiveOf(p) : i <= j

\* ceil(VOTING_THRESHOLD * K), the fewest agreeing embeddings of K that reach
\* the voting threshold.
CeilVotes(K) == (VOTING_THRESHOLD * K + 99) \div 100

RecCalled == rec_result.decision # "NOT_CALLED"

\* C15: a MATCH names an identity and carries that identity's agreement
\* ratio, which is at least VOTING_THRESHOLD; and a result that names an
\* identity whose ratio is at least VOTING_THRESHOLD is a MATCH.
C15_MatchMeetsThreshold ==
    RecCalled =>
        /\ rec_result.decision = "MATCH" =>
              /\ rec_result.person_id \in ActivePersons
              /\ rec_result.vote_percentage
                   = <<AgreeCount(rec_result.person_id),
                       Cardinality(ActiveOf(rec_result.person_id))>>
              /\ 100 * rec_result.vote_percentage[1]
                   >= VOTING_THRESHOLD * rec_result.vote_percentage[2]
        /\ (/\ rec_result.person_id # NoPerson
            /\ 100 * rec_result.vote_percentage[1]
                 >= VOTING_THRESHOLD * rec_result.vote_percentage[2])
              => rec_result.decision = "MATCH"

\* A MATCH whose ratio is exactly the voting threshold (3 of 5).
C15_Witness ==
    /\ rec_result.decision = "MATCH"
    /\ 100 * rec_result.vote_count = VOTING_THRESHOLD * rec_result.total_embeddings

\* C16: the result is UNKNOWN exactly when no active identity is enrolled;
\* with an active identity whose best ratio is below VOTING_THRESHOLD, a
\* ratio of 0 included, the result is NO_MATCH and names a candidate.
C16_UnknownIffNoIdentity ==
    RecCalled =>
        /\ rec_result.decision = "UNKNOWN" <=> ActivePersons = {}
        /\ (/\ ActivePersons # {}
            /\ \A p \in ActivePersons :
                   100 * AgreeCount(p) < VOTING_THRESHOLD * Cardinality(ActiveOf(p)))
              => /\ rec_result.decision = "NO_MATCH"
                 /\ rec_result.person_id \in ActivePersons

\* C17: the identity a result names has the largest ratio; among the
\* identities with that ratio it has the largest mean similarity; among
\* those with that mean too it was enrolled first.
C17_SelectionOrder ==
    (RecCalled /\ rec_result.person_id # NoPerson) =>
        \A q \in ActivePersons \ {rec_result.person_id} :
            LET p == rec_result.person_id
            IN  \/ RatioGreater(p, q)
                \/ /\ RatioEqual(p, q)
                   /\ \/ MeanGreater(p, q)
                      \/ MeanEqual(p, q) /\ FirstOf(p) < FirstOf(q)

\* C18: when no other identity has an embedding above the threshold, an
\* identity with exactly ceil(0.60 * K) of its K embeddings above it is a
\* MATCH, and with one fewer the result is NO_MATCH.
C18_VotingBoundary ==
    RecCalled =>
        \A p \in ActivePersons :
            (\A q \in ActivePersons \ {p} : AgreeCount(q) = 0) =>
                LET K == Cardinality(ActiveOf(p))
                IN  /\ AgreeCount(p) = CeilVotes(K) =>
                          /\ rec_result.decision = "MATCH"
                          /\ rec_result.person_id = p
                    /\ AgreeCount(p) = CeilVotes(K) - 1 =>
                          rec_result.decision = "NO_MATCH"

(***************************************************************************)
(* Claims about MultiFrameVerifier                                         *)
(***************************************************************************)

VerifyCalled == verify_result.decision # "NOT_CALLED"

\* The history of the verified track.
VerifiedHistory ==
    IF verify_track \in DOMAIN verification_history
    THEN verification_history[verify_track]
    ELSE <<>>

\* The positions of the observations whose timestamps lie in the window
\* [now - ((N_frames - 1) * interval + 5), now] of the call.
InWindow ==
    {i \in 1..Len(VerifiedHistory) :
        /\ verify_now - max_age <= VerifiedHistory[i].timestamp
        /\ VerifiedHistory[i].timestamp <= verify_now}

\* The VERIFICATION_FRAMES most recently recorded of them.
Considered ==
    {i \in InWindow :
        Cardinality({j \in InWindow : j > i}) < VERIFICATION_FRAMES}

\* The MATCH observations among them that name a person.
MatchVotes(p) ==
    Cardinality({i \in Considered :
                    /\ VerifiedHistory[i].result.decision = "MATCH"
                    /\ VerifiedHistory[i].result.person_id = p})

\* The most votes a person has.
TopVotes ==
    CHOOSE n \in 0..VERIFICATION_FRAMES :
        /\ \A p \in ObservedPersons : MatchVotes(p) <= n
        /\ n > 0 => \E p \in ObservedPersons : MatchVotes(p) = n

\* C19: verify returns a result exactly when at least VERIFICATION_FRAMES
\* observations of the track have timestamps inside the window, which ends
\* at now: older ones and ones later than now do not count.
C19_ResultIffInWindow ==
    VerifyCalled =>
        (verify_result # NoResult <=> Cardinality(InWindow) >= VERIFICATION_FRAMES)

\* C20: with enough observations in the window, the result is the vote over
\* the VERIFICATION_FRAMES most recent of them: only MATCH observations
\* count, the ratio is the winner's votes over VERIFICATION_FRAMES, and the
\* result is a MATCH exactly when the ratio is above one half.
C20_MajorityVote ==
    (VerifyCalled /\ Cardinality(InWindow) >= VERIFICATION_FRAMES) =>
        /\ verify_result # NoResult
        /\ verify_result.vote_percentage = <<TopVotes, VERIFICATION_FRAMES>>
        /\ TopVotes > 0 => /\ verify_result.person_id \in ObservedPersons
                           /\ MatchVotes(verify_result.person_id) = TopVotes
        /\ verify_result.decision = "MATCH" <=> 2 * TopVotes > VERIFICATION_FRAMES

\* The verifications the vote of the last call ran over.
VotedOver == recent_verifications(VerifiedHistory, verify_now, <<>>)

\* C21: verify never returns MATCH unless the track has at least
\* VERIFICATION_FRAMES observations and the ones voted over are spread in
\* time: their average spacing is not below half the verification interval.
C21_MatchNeedsSpacing ==
    (VerifyCalled /\ verify_result.decision = "MATCH") =>
        /\ Len(VerifiedHistory) >= VERIFICATION_FRAMES
        /\ ~frames_too_close(VotedOver)

\* C22: a history never holds more than 2 * VERIFICATION_FRAMES
\* observations, and an add changes one history only: below capacity the new
\* observation is appended to what was there, at capacity the oldest one is
\* dropped and the new one appended to the rest.
C22_BoundedFifo ==
    [][\A t \in DOMAIN verification_history' :
          LET old == HistoryOf(t)
              new == verification_history'[t]
          IN  /\ Len(new) <= 2 * VERIFICATION_FRAMES
              /\ Len(new) >= 1
              /\ \/ new = old /\ (evicted' = <<>> \/ evicted'[1] # t)
                 \/ /\ Len(old) < 2 * VERIFICATION_FRAMES
                    /\ SubSeq(new, 1, Len(new) - 1) = old
                 \/ /\ Len(old) = 2 * VERIFICATION_FRAMES
                    /\ SubSeq(new, 1, Len(new) - 1) = Tail(old)]_vars

\* An add on a full history of T1 has dropped its oldest observation, one
\* that differs from the oldest one kept.
C22_Witness ==
    /\ evicted # <<>>
    /\ evicted[1] = "T1"
    /\ Len(verification_history["T1"]) = 2 * VERIFICATION_FRAMES
    /\ evicted[2] # verification_history["T1"][1]

(***************************************************************************)
(* Claims about the service (main.py)                                      *)
(***************************************************************************)

\* The processing task never ran, or has ended.
TaskOver == processing_task \in {"none", "ended", "cancelled"}

\* C23: shutdown stops the processing loop first, then the capture, then
\* disconnects the publisher: the stream is stopped only when the task is
\* done, Redis is closed only when the stream is stopped, and no frame is
\* started once the stream is stopped or Redis is closed.
C23_ShutdownOrder ==
    /\ [](/\ rtsp_stream = "stopped" => (TaskOver /\ ~state_running)
          /\ redis_client = "closed" => (TaskOver /\ rtsp_stream = "stopped"))
    /\ [][frame_counter' # frame_counter =>
             (rtsp_stream # "stopped" /\ redis_client # "closed")]_vars

\* A shutdown that found the task in a frame has stopped the stream and
\* closed Redis.
C23_Witness ==
    /\ lifespan = "complete"
    /\ processing_task = "cancelled"
    /\ at_shutdown.processing_task \in {"count", "face", "broadcast"}
    /\ rtsp_stream = "stopped"
    /\ redis_client = "closed"

\* C24: a shutdown requested while a frame is being processed lets that
\* frame finish: when the task has ended, no frame was started after the
\* request, a frame that was waiting for its person count to be published
\* was not due for the face pipeline, and a frame that was publishing a face
\* had no other face left.
C24_InFlightCompletes ==
    (processing_task \in {"ended", "cancelled"}) =>
        /\ frame_counter = at_shutdown.frame_counter
        /\ at_shutdown.processing_task = "count" => ~runs_face_pipeline(frame_counter)
        /\ at_shutdown.processing_task \in {"face", "broadcast"} => faces_left = 1

\* C25: an exception inside process_face does not keep the other faces of
\* the frame from being processed, and an exception in a turn does not end
\* the loop: the task leaves the faces of a frame only when none is left,
\* and it ends only when the service is shut down.
C25_ErrorsAbsorbed ==
    /\ processing_task \in {"loop_sleep", "no_frame_sleep", "count", "error_sleep"}
          => faces_left = 0
    /\ processing_task \in {"ended", "cancelled"} => ~state_running

\* After a turn that raised, the task is publishing a face of a later frame,
\* an earlier face of which raised inside process_face.
C25_Witness ==
    /\ frame_error
    /\ face_error
    /\ processing_task = "face"

\* C26: a face event is written and broadcast only for a face recognize_face
\* decided MATCH: process_face goes to publish only with such a decision, the
\* face log and the channel change only in such a publish, and a face
\* processed while nobody, or nobody active, is registered is not published;
\* person counts are not affected.
C26_EventOnlyForMatch ==
    /\ [][(processing_task = "faces" /\ processing_task' = "face") =>
             /\ Len(registered_embeddings) > 0
             /\ recognize_face(registered_embeddings).decision = "MATCH"]_vars
    /\ [][(primary' # primary \/ broadcasts' # broadcasts) =>
             (processing_task \in {"face", "broadcast"})]_vars
    /\ [][(processing_task = "faces" /\ ActiveItems(registered_embeddings) = <<>>) =>
             (processing_task' # "face" /\ UNCHANGED person_counts)]_vars

\* While only an inactive embedding is registered, frames with faces were
\* processed and counted, and no face event was written.
C26_Witness ==
    /\ Len(registered_embeddings) > 0
    /\ ActiveItems(registered_embeddings) = <<>>
    /\ face_error = FALSE
    /\ \E i \in 1..Len(call_log) :
          /\ call_log[i].kind = "detect"
          /\ call_log[i].frame_number = frame_counter
    /\ processing_task = "loop_sleep"
    /\ Len(person_counts) = frame_counter
    /\ frame_counter >= PROCESS_EVERY_N_FRAMES
    /\ primary = <<>>
    /\ broadcasts = {}

\* C27: /ready answers ready exactly when the service is running, the
\* capture is connected and Redis answers.
C27_ReadyIffAllUp ==
    ready_result # "none" =>
        (ready_result = "ready" <=> (ready_seen[1] /\ ready_seen[2] /\ ready_seen[3]))

(***************************************************************************)
(* Claims about FacePersonDetector                                         *)
(***************************************************************************)

\* The width and height of a box.
BoxWidth(box) == box[3] - box[1]

BoxHeight(box) == box[4] - box[2]

\* The boxes detect_faces kept, in order.
KeptBoxes == [i \in 1..Len(face_detections) |-> face_detections[i].bbox]

\* C28: detect_faces keeps a box exactly when its width and its height are
\* both at least MIN_FACE_SIZE, in the order of the model: a box of
\* MIN_FACE_SIZE x MIN_FACE_SIZE is kept, one of (MIN_FACE_SIZE - 1) x
\* MIN_FACE_SIZE or MIN_FACE_SIZE x (MIN_FACE_SIZE - 1) is not.
C28_FaceSizeFilter ==
    /\ KeptBoxes = SelectSeq(face_boxes,
                             LAMBDA box : /\ BoxWidth(box) >= MIN_FACE_SIZE
                                          /\ BoxHeight(box) >= MIN_FACE_SIZE)
    /\ \A i \in 1..Len(face_boxes) :
          LET box == face_boxes[i]
              kept == \E j \in 1..Len(face_detections) : face_detections[j].bbox = box
          IN  /\ (BoxWidth(box) = MIN_FACE_SIZE /\ BoxHeight(box) = MIN_FACE_SIZE)
                    => kept
              /\ (BoxWidth(box) = MIN_FACE_SIZE - 1 /\ BoxHeight(box) = MIN_FACE_SIZE)
                    => ~kept
              /\ (BoxWidth(box) = MIN_FACE_SIZE /\ BoxHeight(box) = MIN_FACE_SIZE - 1)
                    => ~kept

\* The model returned a box one pixel too narrow and a box of exactly the
\* minimum size; only the second was kept.
C28_Witness ==
    /\ Len(face_boxes) = 2
    /\ BoxWidth(face_boxes[1]) = MIN_FACE_SIZE - 1
    /\ BoxHeight(face_boxes[1]) = MIN_FACE_SIZE
    /\ BoxWidth(face_boxes[2]) = MIN_FACE_SIZE
    /\ BoxHeight(face_boxes[2]) = MIN_FACE_SIZE
    /\ Len(face_detections) = 1
    /\ face_detections[1].bbox = face_boxes[2]

(***************************************************************************)
(* Claims about ResilientRTSPStream                                        *)
(***************************************************************************)

\* The waits of the reconnect schedule as the docstring of
\* _handle_connection_failure and the specification list them.
ListedWaits == <<30, 45, 67, 101, 151, 227, 300, 300>>

\* C4: the wait of the k-th consecutive failed retry is the k-th of
\* 30, 45, 67, 101, 151, 227, 300, 300: while the thread sleeps in the backoff
\* of retry k, the delay it sleeps is that number.
C4_ReconnectSchedule ==
    (thread_pc = "sleep" /\ retry_count \in 1..Len(ListedWaits))
        => retry_delay = ListedWaits[retry_count]

\* C5: when the capture loop has just published a frame, retry_delay is
\* back at initial_retry_delay and error_count and retry_count are 0,
\* whatever the outage before it was.
C5_ResetOnSuccess ==
    thread_event = "published"
        => /\ retry_delay = initial_retry_delay
           /\ error_count = 0
           /\ retry_count = 0

\* A frame was just published on a connection that took two or more retries.
C5_Witness ==
    /\ thread_event = "published"
    /\ after_backoff
    /\ retry_delay = initial_retry_delay
    /\ error_count = 0

\* C6: once the consecutive retry count of an outage has reached 3, a
\* warning alert has been delivered to the alert sink (the alerts channel).
C6_AlertEscalation ==
    retry_count >= 3 => \E i \in 1..Len(alerts) : alerts[i].type = "warning"

\* C7: a start() call on a running stream changes no field of the stream,
\* spawns no thread and leaves the thread where it is.
C7_StartIdempotent ==
    [][(n_start' # n_start /\ running) => UNCHANGED <<captureVars, spawned>>]_vars

\* start() was called twice and only one thread was ever created.
C7_Witness ==
    /\ n_start = 2
    /\ spawned = 1
    /\ running
    /\ thread_pc \notin {"none", "done"}

\* C8: a thread that was sleeping in backoff when stop() was called does not
\* sleep on for more than initial_retry_delay seconds after that call.
C8_StopAbortsBackoff ==
    (stop_in_sleep /\ thread_pc = "sleep") => since_stop <= initial_retry_delay

\* C9: once stop() has returned, the handle is released and no frame is
\* published into the slot.
C9_StoppedStaysStopped ==
    stop_returned => (cap # "open" /\ ~late_frame)

\* The calls of one kind in the log, in order.
CallsOf(kind) == SelectSeq(call_log, LAMBDA c : c.kind = kind)

\* The frame numbers a sequence of calls carries, in order.
FrameNumbers(calls) == [i \in 1..Len(calls) |-> calls[i].frame_number]

C14_CountBeforeFaces ==
    \A j \in 1..Len(call_log) :
        call_log[j].kind = "face" =>
            /\ \E i \in 1..(j - 1) :
                   /\ call_log[i].kind = "count"
                   /\ call_log[i].frame_number = call_log[j].frame_number
            /\ \A k \in (j + 1)..Len(call_log) :
                   call_log[k].frame_number = call_log[j].frame_number =>
                       /\ call_log[k].kind = "face"
                       /\ call_log[k].left < call_log[j].left

\* Two face events of one frame were emitted after its person count.
C14_Witness ==
    \E i, j \in 1..Len(call_log) :
        /\ i < j
        /\ call_log[i].kind = "face"
        /\ call_log[j].kind = "face"
        /\ call_log[i].frame_number = call_log[j].frame_number

\* C12: a running stream always has a living capture thread, however many
\* connects failed; and when from some time on the stream stays running and
\* the camera stays reachable (and the counters of the model are below their
\* bounds), the thread goes on to publish every frame the model allows.
C12_KeepsRetrying ==
    /\ [](running => thread_pc \notin {"none", "done"})
    /\ (<>[](running /\ source_up /\ retry_count < MaxRetries
                     /\ error_count < MaxErrors))
          => <>(frame_count = MaxFrames)

\* A frame published by a running stream after two or more failed connects.
C12_Witness ==
    /\ running
    /\ after_backoff
    /\ thread_event = "published"
    /\ frame_count = MaxFrames
    /\ source_up

\* C11: the frame counter a reader sees never goes down, goes up by exactly
\* one in the step that publishes a frame into the slot and in no other
\* step; a disconnect, a reconnect, a stop or a start leaves it alone.
C11_FrameCountMonotone ==
    [][/\ frame_count' >= frame_count
       /\ (thread_pc = "read" /\ thread_event' = "published")
              => frame_count' = frame_count + 1
       /\ ~(thread_pc = "read" /\ thread_event' = "published")
              => frame_count' = frame_count]_vars

\* The worker has reconnected after a read failure that followed a publish,
\* and the counter still holds the frames published before the outage.
C11_Witness ==
    /\ thread_event = "connected"
    /\ error_count > 0
    /\ frame_count >= 1

\* C10: a read_frame() call leaves the slot as it was; it returns
\* (False, None) while nothing was ever published and (True, the slot's
\* content) afterwards; with no publish since the previous call it returns
\* what that call returned.
C10_LatestFrame ==
    [][rd_seq' # rd_seq =>
          /\ frame' = frame
          /\ frame_count = 0 => (~rd_ok' /\ rd_frame' = None)
          /\ frame_count > 0 => (rd_ok' /\ rd_frame' = frame /\ frame # None)
          /\ (rd_seq # 0 /\ ~pub_since_rd) => (rd_ok' = rd_ok /\ rd_frame' = rd_frame)
      ]_vars

\* Two read_frame() calls in a row, with a frame in the slot and no publish
\* between them.
C10_Witness ==
    /\ rd_repeat
    /\ rd_ok
    /\ rd_frame = frame
    /\ frame # None

\* read_frame() was called before any frame was published.
C10_WitnessEmpty ==
    /\ rd_seq # 0
    /\ ~rd_ok
    /\ frame_count = 0

(***************************************************************************)
(* Claims about overlapping calls                                          *)
(***************************************************************************)

\* The data of the events a caller wrote to the buffer log are pairwise
\* different (each has its own timestamp), so an entry copied twice shows
\* as two equal entries of the primary log.
CopiedTwice ==
    \E i, j \in 1..Len(primary) : i < j /\ primary[i] = primary[j]

\* C31: two overlapping /sync-buffer calls, interleaved at their awaits,
\* never copy the same buffered entry into the primary log twice.
C31_DrainsExclusive == ~CopiedTwice

\* C32: the entries of the primary face-event log are in nondecreasing
\* frame_number order, also after an outage with buffered events and a
\* drain that runs while the processing loop keeps publishing.
C32_PrimaryInFrameOrder ==
    \A i, j \in 1..Len(primary) :
        i < j => primary[i].frame_number <= primary[j].frame_number

\* A thread is alive from its start until _capture_loop returns.
WorkerAlive == thread_pc \notin {"none", "done"}

PreviousAlive == old_pc \notin {"none", "done"}

\* C33: at most one capture thread is alive and it is the only writer of the
\* frame slot, also after a start() that follows a stop() whose join timed
\* out.
C33_SingleWorker == ~(WorkerAlive /\ PreviousAlive) /\ ~old_wrote

\* The thread of the earlier start() has written the frame slot while the
\* thread of the later start() was alive.
C33_TwoWriters == ~(WorkerAlive /\ old_wrote)

(***************************************************************************)
(* Claims about a failed read of the capture thread                        *)
(***************************************************************************)

\* The step in which the thread's self.cap.read() fails: it returned no
\* frame or raised.
ReadFailedStep == thread_event # "read_failed" /\ thread_event' = "read_failed"

\* C34: a failed read is absorbed by the capture thread: it writes nothing
\* to the frame slot, releases the handle, sets connected to false, adds one
\* to the error counter and enters the reconnect backoff instead of ending.
C34_ReadErrorAbsorbed ==
    [][ReadFailedStep =>
          /\ frame' = frame
          /\ frame_count' = frame_count
          /\ cap' = "none"
          /\ connected' = FALSE
          /\ error_count' = error_count + 1
          /\ retry_count' = retry_count + 1
          /\ thread_pc' = "sleep"
          /\ sleep_left' = retry_delay
          /\ running' = running]_vars

\* A read failed after an earlier one had published a frame: the thread
\* sleeps in the backoff, the frame is still in the slot.
C34_Witness ==
    /\ thread_event = "read_failed"
    /\ thread_pc = "sleep"
    /\ frame # None
    /\ error_count = 1
    /\ cap = "none"
    /\ ~connected

(***************************************************************************)
(* Claims about ties of the vote across frames                             *)
(***************************************************************************)

\* The positions in the verified track's history of the observations the
\* last call voted over: the VERIFICATION_FRAMES most recently recorded ones
\* that are not older than the window.
VotedPositions ==
    LET fresh == {i \in 1..Len(VerifiedHistory) :
                     verify_now - VerifiedHistory[i].timestamp <= max_age}
    IN  {i \in fresh : Cardinality({j \in fresh : j > i}) < VERIFICATION_FRAMES}

\* The positions among them of the MATCH observations of a person.
MatchPositions(p) ==
    {i \in VotedPositions :
        /\ VerifiedHistory[i].result.decision = "MATCH"
        /\ VerifiedHistory[i].result.person_id = p}

\* The persons with the most MATCH votes, when anybody has one.
TiedPersons ==
    {p \in ObservedPersons :
        /\ MatchPositions(p) # {}
        /\ \A q \in ObservedPersons :
              Cardinality(MatchPositions(q)) <= Cardinality(MatchPositions(p))}

\* The position of the most recently recorded MATCH observation of a person.
LatestMatch(p) == CHOOSE i \in MatchPositions(p) : \A j \in MatchPositions(p) : j <= i

\* C35: when two or more persons have the same highest number of MATCH
\* votes among the observations verify voted over, the person reported is
\* the one of them whose MATCH observation is the most recent.
C35_TieGoesToMostRecent ==
    (VerifyCalled /\ verify_result # NoResult /\ Cardinality(TiedPersons) >= 2) =>
        /\ verify_result.person_id \in TiedPersons
        /\ \A q \in TiedPersons :
              LatestMatch(q) <= LatestMatch(verify_result.person_id)

\* Three persons with one vote each, and the call reported the one recorded
\* last, without a majority.
C35_Witness ==
    /\ VerifyCalled
    /\ verify_result # NoResult
    /\ Cardinality(TiedPersons) = 3
    /\ verify_result.person_id = VerifiedHistory[Len(VerifiedHistory)].result.person_id
    /\ verify_result.decision = "NO_MATCH"

(***************************************************************************)
(* Claims about the verifier's reaper                                      *)
(***************************************************************************)

\* The newest observation of a track is older than history_ttl.
TrackExpired(t) ==
    clock - verification_history[t][Len(verification_history[t])].timestamp
       > history_ttl

\* Some observation in the verifier's state is older than history_ttl.
StaleObservation ==
    \E t \in DOMAIN verification_history :
        \E i \in 1..Len(verification_history[t]) :
            clock - verification_history[t][i].timestamp > history_ttl

\* The step is a call of the reaper: the clock stands, the processing
\* task does not move and no observation is recorded.
ReaperStep ==
    /\ clock' = clock
    /\ UNCHANGED <<serviceVars, procVars>>
    /\ \A t \in DOMAIN verification_history' :
          /\ t \in DOMAIN verification_history
          /\ Len(verification_history'[t]) <= Len(verification_history[t])

\* A call of the reaper removes exactly the expired tracks and leaves the
\* history of every other track as it was.
C36_ReaperExact ==
    [][ReaperStep =>
          /\ DOMAIN verification_history' =
                {t \in DOMAIN verification_history : ~TrackExpired(t)}
          /\ \A t \in DOMAIN verification_history' :
                verification_history'[t] = verification_history[t]]_vars

\* C36: observations are bounded in age: the reaper removes exactly the
\* tracks whose newest observation is older than history_ttl, and as the
\* service runs no observation older than history_ttl stays in the
\* verifier's state for ever.
C36_NoObservationStaysForever ==
    /\ C36_ReaperExact
    /\ []<>(~StaleObservation)

(***************************************************************************)
(* Claims about broadcasts                                                 *)
(***************************************************************************)

\* The step in which publish_face_detection returns to process_face after
\* its publish failed.
BroadcastFailedStep ==
    /\ processing_task = "broadcast"
    /\ processing_task' # "broadcast"
    /\ ~primary_ok

\* C37: a failed broadcast is logged and dropped: it is not raised to the
\* caller, it changes neither the primary log nor the buffer log, and the
\* face event already written is not written again to the buffer.
C37_BroadcastFailureDropped ==
    [][BroadcastFailedStep =>
          /\ primary' = primary
          /\ buffer' = buffer
          /\ broadcasts' = broadcasts
          /\ face_error' = face_error
          /\ frame_error' = frame_error
          /\ processing_task' = after_face(faces_left - 1)]_vars

\* A face event is in the primary log, its face is finished, and its
\* broadcast was dropped without a copy in the buffer.
C37_Witness ==
    /\ \E i \in 1..Len(primary) :
          /\ primary[i].timestamp <= n_events
          /\ primary[i].timestamp \notin broadcasts
    /\ buffer = <<>>
    /\ ~face_error
    /\ ~frame_error

(***************************************************************************)
(* Claims about get_status                                                 *)
(***************************************************************************)

\* C38: get_status() reports connected only while the stream handle is
\* open; in particular it reports connected = false once stop() has
\* returned.
C38_ConnectedImpliesOpen ==
    /\ connected => cap = "open"
    /\ (stop_returned /\ stop_pc = "idle") => ~connected

(***************************************************************************)
(* Claims about the tick counter                                           *)
(***************************************************************************)

\* The step is a turn of processing_loop that found a frame in the slot.
TurnWithFrame ==
    /\ processing_task = "loop_sleep"
    /\ processing_task' \notin {"loop_sleep", "cancelled"}
    /\ frame # None

\* C39: state.frame_counter advances by exactly one on every turn that got
\* a frame, also when the frame is the one of the turn before and when the
\* processing of the turn raises, and by nothing else; so the frame_number
\* values of successive person-count events are strictly increasing.
C39_TickPerFrame ==
    /\ [](\A i, j \in 1..Len(person_counts) :
             i < j => person_counts[i] < person_counts[j])
    /\ [][/\ TurnWithFrame => frame_counter' = frame_counter + 1
          /\ ~TurnWithFrame => frame_counter' = frame_counter]_vars

\* Three turns were counted; the last two read the same frame, one turn
\* raised before its person count, and the two counts published have
\* increasing frame numbers.
C39_Witness ==
    /\ rd_ok
    /\ rd_repeat
    /\ frame_count = 1
    /\ frame_counter = 3
    /\ frame_error
    /\ Len(person_counts) = 2

(***************************************************************************)
(* Claims about the separation of tracks                                   *)
(***************************************************************************)

\* The history of a track in a verifier state, empty without a deque.
TrackHistory(histories, t) == IF t \in DOMAIN histories THEN histories[t] ELSE <<>>

\* The verifier state with the verified track alone.
OwnHistoryOnly ==
    [t \in {verify_track} \cap DOMAIN verification_history |-> verification_history[t]]

\* C40: an add or a verify for a track leaves the history of every other
\* track unchanged, a verify leaves the track's own history unchanged too,
\* and the result of a verify is the one the track's own observations
\* give, whatever is recorded under other track ids.
C40_TracksSeparate ==
    /\ [](VerifyCalled =>
             verify_result = verify_identity_in(OwnHistoryOnly, verify_track, verify_now))
    /\ [][/\ \A t, u \in HistoryTracks :
               (t # u /\ TrackHistory(verification_history', t)
                            # TrackHistory(verification_history, t))
                  => TrackHistory(verification_history', u)
                        = TrackHistory(verification_history, u)
          /\ verify_result' # NotCalled => verification_history' = verification_history]_vars

\* A verify of T1 returned a MATCH for E1 from three observations while T2
\* held an observation of E2 with a timestamp inside the window.
C40_Witness ==
    /\ VerifyCalled
    /\ verify_track = "T1"
    /\ verify_result.decision = "MATCH"
    /\ verify_result.person_id = "E1"
    /\ verify_result.vote_count = 3
    /\ "T2" \in DOMAIN verification_history
    /\ verification_history["T2"][1].result.person_id = "E2"
    /\ verification_history["T2"][1].timestamp = 1

=============================================================================
